---- MODULE Spec2Model ----
(***************************************************************************)
(* A model of the PhilGEPS awards dashboard backend:                       *)
(*   - the background task orchestrator (data_processing/tasks.py and the  *)
(*     trigger_*, cancel_task, get_cached_result views);                   *)
(*   - the response cache in front of the synchronous endpoints            *)
(*     (contracts/views.py);                                               *)
(*   - the paginated query executor (contracts/parquet_search.py);         *)
(*   - the handling of the sort field on every entry point that takes one. *)
(* Each part has its own specification over the shared variables; the      *)
(* variables of the other parts keep their initial values.                 *)
(***************************************************************************)
EXTENDS Integers, Sequences, FiniteSets, TLC

VARIABLES
    tasks,      \* the tasks submitted so far, by task id 1..Len(tasks)
    cache,      \* django.core.cache shared by views and workers: key -> entry
    sent,       \* messages delivered by channel_layer.group_send
    resp,       \* the response of the last view call of the task control plane
    channel,    \* what the channel layer does with a send
    rcache,     \* the same cache, the keys of the synchronous endpoints
    rresp,      \* the response of the last call of a cached endpoint
    parquet,    \* the partition files the query executor finds, and their rows
    sres,       \* what search_contracts_with_chips returned
    sortq,      \* the last call of an entry point that takes a sort field
    exp,        \* the generator of a streaming export and what it has done
    flt,        \* what a WHERE builder compiled, and the rows its clause keeps
    agg,        \* what chip_aggregates returned, and the views whose query failed
    pagg,       \* what chip_aggregates_paginated returned for its last call
    vdist,      \* what get_value_distribution returned for its last call
    conn,       \* the class attribute _connection, the connections made, and the requests using them
    room        \* how many tasks the broker takes in a run of the model

taskVars == <<tasks, cache, sent, resp, channel>>
cacheVars == <<rcache, rresp>>
searchVars == <<parquet, sres>>
sortVars == <<sortq>>
exportVars == <<exp>>
filterVars == <<flt>>
aggregateVars == <<agg>>
paginatedVars == <<pagg>>
histogramVars == <<vdist>>
connectionVars == <<conn>>
brokerVars == <<room>>

vars == <<taskVars, cacheVars, searchVars, sortVars, exportVars, filterVars, aggregateVars, paginatedVars, histogramVars, connectionVars, brokerVars>>

(***************************************************************************)
(* Bounds of the model.                                                    *)
(***************************************************************************)
MaxTasks == 1
MaxRows == 3
MaxPage == 2
MaxPageSize == 2
MaxExportRows == 7

(***************************************************************************)
(* Program constants.                                                      *)
(***************************************************************************)
ExportMaxRetries == 3
SearchMaxRetries == 2
AnalyticsMaxRetries == 2
AnalyticsTableMaxRetries == 2
retries == 2

(***************************************************************************)
(* Task orchestrator: data                                                 *)
(***************************************************************************)
\* The canonical forms of the request bodies a client submits.
Filters == {"fa", "fb"}

\* The four submissions that derive a cache key from the request.
KeyedKinds == {"search", "analytics", "analytics_table", "aggregates"}
Kinds == KeyedKinds \cup {"export"}

\* The tasks whose except branch ends in self.retry(...).
RetryEnabled(kind) == kind # "aggregates"

MaxRetriesOf(kind) ==
    CASE kind = "export" -> ExportMaxRetries
      [] kind = "search" -> SearchMaxRetries
      [] kind = "analytics" -> AnalyticsMaxRetries
      [] kind = "analytics_table" -> AnalyticsTableMaxRetries
      [] OTHER -> 0

\* The tasks that call send_task_update at all.
Broadcasts(kind) == kind # "aggregates"

\* cache_key = f"<prefix>:{md5(json.dumps(filters, sort_keys=True))}": one key
\* per kind and canonical request; an export is keyed by its fresh export_id.
CacheKey(kind, f) == <<kind, f>>
ExportKey(id) == <<"export", id>>
\* export_id = str(uuid.uuid4()): a fresh id for every export submitted.
ExportIds == {"id1", "id2", "id3", "id4"}
FreshExportId(n) == CASE n = 1 -> "id1" [] n = 2 -> "id2" [] n = 3 -> "id3" [] OTHER -> "id4"
Keys == (KeyedKinds \X Filters) \cup ({"export"} \X ExportIds)

\* Cache entries. status is the entry's 'status' field ("none": the dict has
\* no such field), success its 'success' field ("na": no such field).
Absent == [status |-> "absent", success |-> "na", by |-> 0]
ErrorEntry(t) == [status |-> "error", success |-> "na", by |-> t]
ExportDone(t) == [status |-> "completed", success |-> "na", by |-> t]
ExportFailed(t) == [status |-> "failed", success |-> "na", by |-> t]
ResultEntry(t, res) ==
    [status |-> "none", success |-> IF res = "ok" THEN "true" ELSE "false", by |-> t]

Terminal == {"SUCCESS", "FAILURE", "REVOKED"}

NoResp == [op |-> "none", key |-> <<"none", "none">>, status |-> "none",
           data |-> Absent, task |-> 0]

(***************************************************************************)
(* send_task_update: two group_send calls inside one try; a missing layer  *)
(* sends nothing, a raising group_send ends the function.                  *)
(***************************************************************************)
Msg(t, group, state, progress, payload) ==
    [task |-> t, group |-> group, state |-> state, progress |-> progress,
     payload |-> payload]

send_task_update(log, t, state, progress, payload) ==
    CASE channel = "ok" ->
            log \cup {Msg(t, "task", state, progress, payload),
                      Msg(t, "global", state, progress, payload)}
      [] channel = "second_raises" ->
            log \cup {Msg(t, "task", state, progress, payload)}
      [] OTHER -> log     \* "no_layer", "first_raises"

\* What the channel layer can do with the sends of a run.
ChannelModes == {"ok", "no_layer", "first_raises", "second_raises"}

\* A send_task_update without its try: what group_send raises leaves it.
send_task_update_escapes(mode) == mode \in {"first_raises", "second_raises"}

\* Whether an exception leaves send_task_update: its `except Exception`
\* takes whatever get_channel_layer and group_send raise, and prints it.
send_task_update_raises(mode) == FALSE

\* The sends of a task kind that does not broadcast are no sends.
Notify(kind, log, t, state, progress, payload) ==
    IF Broadcasts(kind) THEN send_task_update(log, t, state, progress, payload)
    ELSE log

(***************************************************************************)
(* Submission views                                                        *)
(***************************************************************************)
\* The test each trigger view applies to cache.get(cache_key).
ServedFromCache(kind, entry) ==
    IF kind = "aggregates"
    THEN entry # Absent
    ELSE entry # Absent /\ entry.status # "error"

NewTask(kind, key) ==
    [kind |-> kind, key |-> key, state |-> "PENDING", pc |-> "queued",
     retries |-> 0, fails |-> 0, result |-> "none", revoked |-> FALSE]

Trigger(kind, f) ==
    LET key == CacheKey(kind, f) IN
    IF ServedFromCache(kind, cache[key])
    THEN /\ resp' = [op |-> kind, key |-> key, status |-> "cached",
                     data |-> cache[key], task |-> 0]
         /\ UNCHANGED <<tasks, cache, sent, channel>>
    ELSE /\ Len(tasks) < room
         /\ tasks' = Append(tasks, NewTask(kind, key))
         /\ resp' = [op |-> kind, key |-> key, status |-> "queued",
                     data |-> Absent, task |-> Len(tasks) + 1]
         /\ UNCHANGED <<cache, sent, channel>>

trigger_search(f) == Trigger("search", f)
trigger_analytics(f) == Trigger("analytics", f)
trigger_analytics_paginated(f) == Trigger("analytics_table", f)
trigger_aggregates(f) == Trigger("aggregates", f)

trigger_export ==
    /\ Len(tasks) < room
    /\ LET id == FreshExportId(Len(tasks) + 1) IN
       /\ tasks' = Append(tasks, NewTask("export", ExportKey(id)))
       /\ resp' = [op |-> "export", key |-> ExportKey(id), status |-> "queued",
                   data |-> Absent, task |-> Len(tasks) + 1]
    /\ UNCHANGED <<cache, sent, channel>>

(***************************************************************************)
(* get_cached_result and cancel_task                                       *)
(***************************************************************************)
CachedStatus(entry) ==
    IF entry = Absent THEN "not_ready"
    ELSE IF entry.status = "error" THEN "error"
    ELSE "success"

get_cached_result(key) ==
    /\ resp' = [op |-> "get_cached_result", key |-> key,
                status |-> CachedStatus(cache[key]),
                data |-> IF CachedStatus(cache[key]) = "success" THEN cache[key]
                         ELSE Absent,
                task |-> 0]
    /\ UNCHANGED <<tasks, cache, sent, channel>>

\* celery_app.control.revoke(task_id, terminate=True): a task a worker is
\* executing is terminated; a task still waiting (first run or retry) is
\* remembered as revoked and dropped when a worker receives it. The view
\* answers {'status': 'cancelled'} whatever the task's state, so the answer
\* is not kept.
cancel_task(t) ==
    /\ t \in 1..Len(tasks)
    /\ tasks' = [tasks EXCEPT ![t] =
          IF @.state \in Terminal THEN @
          ELSE IF @.pc = "queued" THEN [@ EXCEPT !.revoked = TRUE]
          ELSE [@ EXCEPT !.state = "REVOKED", !.pc = "done", !.result = "none"]]
    /\ UNCHANGED <<cache, sent, resp, channel>>

(***************************************************************************)
(* Worker: one attempt of a task                                           *)
(***************************************************************************)
DiscardRevoked(t) ==
    /\ t \in 1..Len(tasks)
    /\ tasks[t].pc = "queued"
    /\ tasks[t].revoked
    /\ tasks' = [tasks EXCEPT ![t].state = "REVOKED", ![t].pc = "done"]
    /\ UNCHANGED <<cache, sent, resp, channel>>

\* Up to the call of the service: STARTED, update_state(PROGRESS), PROGRESS.
FirstProgress(kind) == IF kind = "export" THEN 20 ELSE 30

\* The first send of an attempt stands inside the task's try; an exception
\* leaving it would reach the except branch, whose own send would raise it
\* again before cache.set and self.retry: the attempt would end the task.
Begin(task, mode) ==
    IF Broadcasts(task.kind) /\ send_task_update_raises(mode)
    THEN [task EXCEPT !.state = "FAILURE", !.pc = "done", !.result = "none"]
    ELSE [task EXCEPT !.state = "PROGRESS", !.pc = "begun"]

TaskBegin(t) ==
    /\ t \in 1..Len(tasks)
    /\ tasks[t].pc = "queued"
    /\ ~tasks[t].revoked
    /\ tasks' = [tasks EXCEPT ![t] = Begin(@, channel)]
    /\ sent' = LET k == tasks[t].kind
                   s1 == Notify(k, sent, t, "STARTED", 0, "none")
               IN Notify(k, s1, t, "PROGRESS", FirstProgress(k), "none")
    /\ UNCHANGED <<cache, resp, channel>>

\* A service whose chip_aggregates_paginated takes the entity_type keyword.
ServiceOutcomesTakingEntityType(kind) ==
    CASE kind = "export" -> {"ok", "raise"}
      [] OTHER -> {"ok", "failed", "raise"}

\* What the call of the service can do: return a result with success True,
\* return a {success: False, error} result, or raise. The paginated analytics
\* task passes entity_type=..., a keyword chip_aggregates_paginated does not
\* take, so its call raises TypeError on every attempt; the export's
\* streaming query returns a relation or raises.
ServiceOutcomes(kind) ==
    CASE kind = "analytics_table" -> {"raise"}
      [] kind = "export" -> {"ok", "raise"}
      [] OTHER -> {"ok", "failed", "raise"}

\* An except branch that stores nothing.
StoredErrorOmitted(kind, t) == Absent

StoredError(kind, t) == IF kind = "export" THEN ExportFailed(t) ELSE ErrorEntry(t)

RetryOneTooMany(task) ==
    IF task.retries <= MaxRetriesOf(task.kind)
    THEN [task EXCEPT !.state = "RETRY", !.pc = "queued",
                      !.retries = @ + 1, !.result = "none"]
    ELSE [task EXCEPT !.state = "FAILURE", !.pc = "done", !.result = "none"]

\* raise self.retry(exc=exc, countdown=...): reschedules the task while
\* request.retries < max_retries, and re-raises exc (FAILURE) after that.
Retry(task) ==
    IF task.retries < MaxRetriesOf(task.kind)
    THEN [task EXCEPT !.state = "RETRY", !.pc = "queued",
                      !.retries = @ + 1, !.result = "none"]
    ELSE [task EXCEPT !.state = "FAILURE", !.pc = "done", !.result = "none"]

\* The plain `raise` of compute_heavy_aggregates.
Reraise(task) == [task EXCEPT !.state = "FAILURE", !.pc = "done", !.result = "none"]

OnException(task) ==
    LET failed == [task EXCEPT !.fails = @ + 1] IN
    IF RetryEnabled(task.kind) THEN Retry(failed) ELSE Reraise(failed)

TaskExecute(t, outcome) ==
    /\ t \in 1..Len(tasks)
    /\ tasks[t].pc = "begun"
    /\ outcome \in ServiceOutcomes(tasks[t].kind)
    /\ IF outcome = "raise"
       THEN \* except Exception: send FAILURE, cache the error, retry or raise
            /\ sent' = Notify(tasks[t].kind, sent, t, "FAILURE", -1, "error")
            /\ cache' = [cache EXCEPT ![tasks[t].key] = StoredError(tasks[t].kind, t)]
            /\ tasks' = [tasks EXCEPT ![t] = OnException(@)]
       ELSE /\ tasks' = [tasks EXCEPT ![t].pc = "executed", ![t].result = outcome]
            /\ UNCHANGED <<cache, sent>>
    /\ UNCHANGED <<resp, channel>>

StoredResult(kind, t, res) ==
    IF kind = "export" THEN ExportDone(t) ELSE ResultEntry(t, res)

\* A completion that stores with cache.add: the entry of an earlier writer
\* stays.
TaskCompleteIfAbsent(t) ==
    /\ t \in 1..Len(tasks)
    /\ tasks[t].pc = "executed"
    /\ LET k == tasks[t].kind
           s1 == Notify(k, sent, t, "PROGRESS", 80, "none")
       IN sent' = Notify(k, s1, t, "SUCCESS", 100, "result")
    /\ cache' = [cache EXCEPT ![tasks[t].key] =
                    IF @ = Absent
                    THEN StoredResult(tasks[t].kind, t, tasks[t].result)
                    ELSE @]
    /\ tasks' = [tasks EXCEPT ![t].state = "SUCCESS", ![t].pc = "done",
                              ![t].result = "none"]
    /\ UNCHANGED <<resp, channel>>

\* After the service returned: PROGRESS, cache.set(cache_key, result), SUCCESS.
TaskComplete(t) ==
    /\ t \in 1..Len(tasks)
    /\ tasks[t].pc = "executed"
    /\ LET k == tasks[t].kind
           s1 == Notify(k, sent, t, "PROGRESS", 80, "none")
       IN sent' = Notify(k, s1, t, "SUCCESS", 100, "result")
    /\ cache' = [cache EXCEPT ![tasks[t].key] =
                    StoredResult(tasks[t].kind, t, tasks[t].result)]
    /\ tasks' = [tasks EXCEPT ![t].state = "SUCCESS", ![t].pc = "done",
                              ![t].result = "none"]
    /\ UNCHANGED <<resp, channel>>

\* The timeout given to cache.set runs out.
Expire(key) ==
    /\ cache[key] # Absent
    /\ cache' = [cache EXCEPT ![key] = Absent]
    /\ UNCHANGED <<tasks, sent, resp, channel>>

(***************************************************************************)
(* Specification of the task orchestrator                                  *)
(***************************************************************************)
\* The keys a client polls are those its submissions were answered with.
SubmittedKeys == {tasks[t].key : t \in {u \in 1..Len(tasks) : tasks[u].kind \in KeyedKinds}}
                 \cup (IF resp.op \in KeyedKinds THEN {resp.key} ELSE {})

InitTasks ==
    /\ tasks = <<>>
    /\ cache = [k \in Keys |-> Absent]
    /\ sent = {}
    /\ resp = NoResp
    /\ channel = "ok"

\* The same start with any behaviour of the channel layer.
InitAnyChannel ==
    /\ tasks = <<>>
    /\ cache = [k \in Keys |-> Absent]
    /\ sent = {}
    /\ resp = NoResp
    /\ channel \in ChannelModes

\* The broker takes MaxTasks tasks in a run.
IdleBroker == room = MaxTasks

\* A run that takes one task more: the same request submitted again while
\* the tasks of the earlier submissions are in flight.
InitResubmit == room = MaxTasks + 1

Submit ==
    \/ \E f \in Filters : trigger_search(f)
    \/ \E f \in Filters : trigger_analytics(f)
    \/ \E f \in Filters : trigger_analytics_paginated(f)
    \/ \E f \in Filters : trigger_aggregates(f)
    \/ trigger_export

Worker(t) ==
    \/ DiscardRevoked(t)
    \/ TaskBegin(t)
    \/ \E o \in {"ok", "failed", "raise"} : TaskExecute(t, o)
    \/ TaskComplete(t)

\* The steps of a run in which one search request is submitted repeatedly.
ResubmitNext ==
    \/ \E f \in Filters : trigger_search(f)
    \/ \E t \in 1..room : TaskBegin(t)
    \/ \E t \in 1..room : \E o \in {"ok", "failed", "raise"} : TaskExecute(t, o)
    \/ \E t \in 1..room : TaskComplete(t)
    \/ \E k \in SubmittedKeys : get_cached_result(k)

\* The steps of a run of the two tasks that broadcast the most: the search
\* and the export.
BroadcastNext ==
    \/ \E f \in Filters : trigger_search(f)
    \/ trigger_export
    \/ \E t \in 1..room : TaskBegin(t)
    \/ \E t \in 1..room : \E o \in {"ok", "failed", "raise"} : TaskExecute(t, o)
    \/ \E t \in 1..room : TaskComplete(t)
    \/ \E k \in SubmittedKeys : get_cached_result(k)

TaskNext ==
    \/ Submit
    \/ \E t \in 1..room : Worker(t)
    \/ \E t \in 1..room : cancel_task(t)
    \/ \E k \in SubmittedKeys : get_cached_result(k)
    \/ \E k \in Keys : Expire(k)

(***************************************************************************)
(* Response cache of the synchronous endpoints (contracts/views.py)        *)
(***************************************************************************)
CachedEndpoints ==
    {"chip_search", "chip_aggregates", "chip_aggregates_paginated",
     "chip_export_estimate", "chip_export_aggregated_estimate",
     "filter_options", "post_cache"}

\* Request bodies: one the endpoint's serializer accepts, one it rejects.
\* filter_options takes no body.
RequestsOf(ep) == IF ep = "filter_options" THEN {"all"} ELSE {"valid", "invalid"}

SerializerAccepts(ep, req) == req # "invalid"

\* cache_key = f"<prefix>:{md5(json.dumps(request.data, sort_keys=True))}"
RKey(ep, req) == <<ep, req>>
RKeys == UNION {{RKey(ep, r) : r \in RequestsOf(ep)} : ep \in CachedEndpoints}

\* An entry is the response body that was stored. fromOk records whether the
\* service call behind it succeeded (history, not read by any handler).
NoEntry == [body |-> "none", fromOk |-> FALSE]
Stored(body, ok) == [body |-> body, fromOk |-> ok]

NoRResp == [ep |-> "none", req |-> "none", status |-> 0, body |-> "none",
            xcache |-> "none", scanned |-> FALSE, repeat |-> FALSE,
            prevBody |-> "none", live |-> FALSE, stale |-> FALSE]

CacheLookupNever(entry) == FALSE

\* cached_result = cache.get(cache_key); if cached_result is not None: HIT
CacheLookup(entry) == entry # NoEntry

\* What a handler makes of the service call on a miss: the HTTP status, the
\* body, and whether it calls cache.set. The service call returned a result
\* with success True ("ok"), returned a failure as a result ("failed": a
\* {success: False} dict, or the empty options get_filter_options returns
\* from its except branch), or raised ("raise").
OnMiss(ep, outcome) ==
    CASE ep \in {"chip_search", "chip_aggregates", "chip_aggregates_paginated"} ->
            IF outcome = "ok"
            THEN [status |-> 200, body |-> "data", store |-> TRUE]
            ELSE [status |-> 500, body |-> "error", store |-> FALSE]
      [] ep \in {"chip_export_estimate", "chip_export_aggregated_estimate"} ->
            \* total_count = result.get('pagination', {}).get('total_count', 0)
            IF outcome = "ok"
            THEN [status |-> 200, body |-> "data", store |-> TRUE]
            ELSE IF outcome = "failed"
            THEN [status |-> 200, body |-> "zero", store |-> TRUE]
            ELSE [status |-> 500, body |-> "error", store |-> FALSE]
      [] ep = "filter_options" ->
            IF outcome = "ok"
            THEN [status |-> 200, body |-> "data", store |-> TRUE]
            ELSE IF outcome = "failed"
            THEN [status |-> 200, body |-> "zero", store |-> TRUE]
            ELSE [status |-> 500, body |-> "error", store |-> FALSE]
      [] OTHER ->
            \* cache_post_response: stores response.data of a 200 response
            IF outcome = "ok"
            THEN [status |-> 200, body |-> "data", store |-> TRUE]
            ELSE [status |-> 500, body |-> "error", store |-> FALSE]

\* One call of a cached endpoint. repeat, prevBody and live record what the
\* call found: whether the call before it was the same request with no
\* expiry of its key in between, that call's body, and whether an entry was
\* stored under the key. stale records that the key of the last call has
\* expired since.
Handle(ep, req, outcome) ==
    LET key == RKey(ep, req)
        again == rresp.ep = ep /\ rresp.req = req /\ ~rresp.stale
        hist == [repeat |-> again,
                 prevBody |-> IF again THEN rresp.body ELSE "none",
                 live |-> rcache[key] # NoEntry,
                 stale |-> FALSE]
    IN
    IF CacheLookup(rcache[key])
    THEN /\ rresp' = [ep |-> ep, req |-> req, status |-> 200,
                      body |-> rcache[key].body, xcache |-> "HIT",
                      scanned |-> FALSE] @@ hist
         /\ UNCHANGED rcache
    ELSE IF ~SerializerAccepts(ep, req)
    THEN /\ rresp' = [ep |-> ep, req |-> req, status |-> 400,
                      body |-> "validation_error", xcache |-> "none",
                      scanned |-> FALSE] @@ hist
         /\ UNCHANGED rcache
    ELSE LET r == OnMiss(ep, outcome) IN
         /\ rresp' = [ep |-> ep, req |-> req, status |-> r.status,
                      body |-> r.body,
                      xcache |-> IF r.status = 200 THEN "MISS" ELSE "none",
                      scanned |-> TRUE] @@ hist
         /\ rcache' = IF r.store
                      THEN [rcache EXCEPT ![key] = Stored(r.body, outcome = "ok")]
                      ELSE rcache

Outcomes == {"ok", "failed", "raise"}

chip_search(req, o) == Handle("chip_search", req, o)
chip_aggregates(req, o) == Handle("chip_aggregates", req, o)
chip_aggregates_paginated(req, o) == Handle("chip_aggregates_paginated", req, o)
chip_export_estimate(req, o) == Handle("chip_export_estimate", req, o)
chip_export_aggregated_estimate(req, o) == Handle("chip_export_aggregated_estimate", req, o)
filter_options(o) == Handle("filter_options", "all", o)
cache_post_response(req, o) == Handle("post_cache", req, o)

\* The 600 s (or the decorator's timeout) given to cache.set run out. From
\* then on the last call no longer counts as made within the TTL.
RExpire(key) ==
    /\ rcache[key] # NoEntry
    /\ rcache' = [rcache EXCEPT ![key] = NoEntry]
    /\ rresp' = IF key = RKey(rresp.ep, rresp.req)
                THEN [rresp EXCEPT !.stale = TRUE]
                ELSE rresp

CacheNext ==
    \/ \E r \in {"valid", "invalid"}, o \in Outcomes : chip_search(r, o)
    \/ \E r \in {"valid", "invalid"}, o \in Outcomes : chip_aggregates(r, o)
    \/ \E r \in {"valid", "invalid"}, o \in Outcomes : chip_aggregates_paginated(r, o)
    \/ \E r \in {"valid", "invalid"}, o \in Outcomes : chip_export_estimate(r, o)
    \/ \E r \in {"valid", "invalid"}, o \in Outcomes : chip_export_aggregated_estimate(r, o)
    \/ \E o \in Outcomes : filter_options(o)
    \/ \E r \in {"valid", "invalid"}, o \in Outcomes : cache_post_response(r, o)
    \/ \E k \in RKeys : RExpire(k)

InitCache ==
    /\ rcache = [k \in RKeys |-> NoEntry]
    /\ rresp = NoRResp

(***************************************************************************)
(* Query executor: search_contracts_with_chips (contracts/parquet_search.py)*)
(***************************************************************************)
\* The rows a partition file can hold, as far as filter and sort read them.
Rows ==
    {[contract_amount |-> 100, award_date |-> 2020],
     [contract_amount |-> 100, award_date |-> 2021],
     [contract_amount |-> 200, award_date |-> 2020]}

Columns == {"contract_amount", "award_date"}

RowSeqs(n) == UNION {[1..m -> Rows] : m \in 0..n}

\* Python's None, and a value that is not None.
None == <<>>
Some(x) == <<x>>

\* The value_range filters of the requests: {'min': .., 'max': ..}.
ValueRanges == [min : {None, Some(200)}, max : {None, Some(100)}]

SortFields == {"award_date", "contract_amount", "contract_value", "no_such_column"}
SortDirections == {"asc", "desc", "DESC", "sideways"}

Requests ==
    [value_range : ValueRanges, page : 1..MaxPage, page_size : 1..MaxPageSize,
     sort_by : SortFields, sort_direction : SortDirections,
     include_count : BOOLEAN]

NoRequest ==
    [value_range |-> [min |-> None, max |-> None], page |-> 1, page_size |-> 1,
     sort_by |-> "award_date", sort_direction |-> "desc", include_count |-> TRUE]

NoResult ==
    [called |-> FALSE, req |-> NoRequest, success |-> FALSE, data |-> <<>>,
     total_count |-> 0, total_pages |-> 0]

\* _build_chip_where_conditions, the value range filter: what the condition
\* appended for value_range says of a row.
ValueRangeCondition(row, value_range) ==
    LET min_amount == value_range.min
        max_amount == value_range.max
    IN CASE min_amount # None /\ max_amount # None ->
                row.contract_amount >= min_amount[1] /\ row.contract_amount <= max_amount[1]
         [] min_amount # None -> row.contract_amount >= min_amount[1]
         [] max_amount # None -> row.contract_amount <= max_amount[1]
         [] OTHER -> TRUE

\* base_query: the UNION ALL of the files, each with the WHERE clause.
BaseData(rows, value_range) ==
    LET Keep(r) == ValueRangeCondition(r, value_range) IN SelectSeq(rows, Keep)

\* str.lower() on the directions of the model.
Lower(d) == IF d = "DESC" THEN "desc" ELSE d

\* sort_direction_sql = "DESC" if sort_direction.lower() == "desc" else "ASC"
SortDirectionSql(sort_direction) ==
    IF Lower(sort_direction) = "desc" THEN "DESC" ELSE "ASC"

\* sort_field = 'contract_amount' if sort_by == 'contract_value' else sort_by
SortField(sort_by) == IF sort_by = "contract_value" THEN "contract_amount" ELSE sort_by

Occurrences(s, r) == Cardinality({i \in 1..Len(s) : s[i] = r})

InOrder(s, field, dir) ==
    \A i \in 1..(Len(s) - 1) :
        IF dir = "DESC" THEN s[i][field] >= s[i + 1][field]
        ELSE s[i][field] <= s[i + 1][field]

\* ORDER BY b.<field> <dir>: every arrangement of the rows that is in order;
\* rows with equal keys come in either order.
OrderBy(s, field, dir) ==
    {o \in [1..Len(s) -> {s[i] : i \in 1..Len(s)}] :
        /\ \A r \in Rows : Occurrences(o, r) = Occurrences(s, r)
        /\ InOrder(o, field, dir)}

OffsetOnePageOn(page, page_size) == page * page_size

\* offset = (page - 1) * page_size
Offset(page, page_size) == (page - 1) * page_size

\* LIMIT page_size OFFSET offset
Limit(s, page_size, offset) ==
    IF offset >= Len(s) THEN <<>>
    ELSE SubSeq(s, offset + 1,
                IF offset + page_size <= Len(s) THEN offset + page_size ELSE Len(s))

\* The return value of the except branch.
SearchFailure(req) ==
    [called |-> TRUE, req |-> req, success |-> FALSE, data |-> <<>>,
     total_count |-> 0, total_pages |-> 0]

SearchNoPartitionFails(req) ==
    [called |-> TRUE, req |-> req, success |-> FALSE, data |-> <<>>,
     total_count |-> 0, total_pages |-> 0]

\* The return value for `if not union_queries`.
SearchNoPartition(req) ==
    [called |-> TRUE, req |-> req, success |-> TRUE, data |-> <<>>,
     total_count |-> 0, total_pages |-> 0]

\* The return value after conn.execute(final_query).fetchall() gave results:
\* the total is read from the first row fetched.
SearchPage(req, base_data, results) ==
    LET total_count ==
            IF req.include_count /\ results # <<>> THEN Len(base_data) ELSE 0
        total_pages ==
            IF req.include_count /\ total_count # 0
            THEN (total_count + req.page_size - 1) \div req.page_size
            ELSE 0
    IN [called |-> TRUE, req |-> req, success |-> TRUE, data |-> results,
        total_count |-> total_count, total_pages |-> total_pages]

\* One call. raises: conn.execute fails for a reason of its own; it fails in
\* any case when the ORDER BY names a column base_data does not have.
search_contracts_with_chips(req, raises) ==
    /\ ~sres.called
    /\ LET base_data == BaseData(parquet.rows, req.value_range)
           field == SortField(req.sort_by)
           dir == SortDirectionSql(req.sort_direction)
           offset == Offset(req.page, req.page_size)
       IN IF parquet.files = 0
          THEN sres' = SearchNoPartition(req)
          ELSE IF raises \/ field \notin Columns
          THEN sres' = SearchFailure(req)
          ELSE \E o \in OrderBy(base_data, field, dir) :
                  sres' = SearchPage(req, base_data, Limit(o, req.page_size, offset))
    /\ UNCHANGED parquet

SearchNext ==
    \E req \in Requests, raises \in BOOLEAN : search_contracts_with_chips(req, raises)

\* No partition file at all, or one file with some rows.
InitSearch ==
    /\ parquet \in {[files |-> 0, rows |-> <<>>]}
                   \cup {[files |-> 1, rows |-> s] : s \in RowSeqs(MaxRows)}
    /\ sres = NoResult

IdleSearch ==
    /\ parquet = [files |-> 0, rows |-> <<>>]
    /\ sres = NoResult

(***************************************************************************)
(* The sort field on the entry points that take one                        *)
(***************************************************************************)
\* ChipSearchRequestSerializer.ALLOWED_SORT_FIELDS
ALLOWED_SORT_FIELDS ==
    {"award_date", "contract_amount", "reference_id", "created_at",
     "organization_name", "awardee_name", "business_category",
     "area_of_delivery", "contract_no", "award_status", "award_amount",
     "award_title", "notice_title"}

\* PaginatedAggregatesRequestSerializer.sort_by, a ChoiceField
AggregateSortChoices == {"total_value", "count", "avg_value", "label"}

\* The columns query_entities_paged selects from an entity file.
EntityColumns ==
    {"entity", "contract_count", "total_contract_value",
     "average_contract_value", "first_contract_date", "last_contract_date"}

\* The sort values a client sends: the names above, and two that are the
\* name of no column.
SortValues ==
    ALLOWED_SORT_FIELDS \cup AggregateSortChoices \cup EntityColumns
        \cup {"contract_value", "no_such_column", "award_date; DROP TABLE x"}

SortDirs == {"ASC", "DESC", "DESC; DROP TABLE x"}

\* status: the HTTP status the view answers with where the sort value decides
\* it (400: validation error; 200, 202: the value was taken). order_by: the
\* text the sort value became in the ORDER BY of a query string, "none" when
\* no query string was built from it. pending: the sort_by of the filters a
\* queued search task was given.
NoSortCall ==
    [ep |-> "none", sort_by |-> "none", status |-> 0, order_by |-> "none",
     dir |-> "none", pending |-> "none"]

SortCall(ep, v, status, order_by) ==
    [ep |-> ep, sort_by |-> v, status |-> status, order_by |-> order_by,
     dir |-> "none", pending |-> "none"]

\* validate_sortBy: a value of the allow-list passes, any other is a
\* ValidationError.
validate_sortBy(v) == v \in ALLOWED_SORT_FIELDS

\* chip_search: serializer.is_valid(), then search_contracts_with_chips.
chip_search_sortBy(v) ==
    sortq' = IF validate_sortBy(v)
             THEN SortCall("chip_search", v, 200, SortField(v))
             ELSE SortCall("chip_search", v, 400, "none")

\* advanced_search: request.data.get('sortBy') goes to search_contracts,
\* which has the ORDER BY of search_contracts_with_chips.
advanced_search(v) ==
    sortq' = SortCall("advanced_search", v, 200, SortField(v))

\* sort_column = sort_columns.get(sort_by, 'total_value')
SortColumn(v) ==
    IF v \in {"total_value", "count", "avg_value"} THEN v ELSE "total_value"

\* chip_aggregates_paginated: the ChoiceField, then the service.
chip_aggregates_paginated_sort_by(v) ==
    sortq' = IF v \in AggregateSortChoices
             THEN SortCall("chip_aggregates_paginated", v, 200, SortColumn(v))
             ELSE SortCall("chip_aggregates_paginated", v, 400, "none")

\* trigger_search: filters = request.data.get('filters', {}) is handed to
\* process_chip_search_task.delay as it is.
trigger_search_sort_by(v) ==
    sortq' = [SortCall("trigger_search", v, 202, "none") EXCEPT !.pending = v]

\* process_chip_search_task: sort_by = filters.get('sort_by', 'award_date')
\* goes to search_contracts_with_chips.
process_chip_search_task ==
    /\ sortq.pending # "none"
    /\ sortq' = [sortq EXCEPT !.ep = "process_chip_search_task",
                              !.order_by = SortField(sortq.pending),
                              !.pending = "none"]

\* query_entities: order_clause = f"{sort_by} {sort_dir}"
query_entities(v, d) ==
    sortq' = [SortCall("query_entities", v, 200, v) EXCEPT !.dir = d]

SortNext ==
    \/ \E v \in SortValues : chip_search_sortBy(v)
    \/ \E v \in SortValues : advanced_search(v)
    \/ \E v \in SortValues : chip_aggregates_paginated_sort_by(v)
    \/ \E v \in SortValues : trigger_search_sort_by(v)
    \/ process_chip_search_task
    \/ \E v \in SortValues, d \in SortDirs : query_entities(v, d)

IdleSort == sortq = NoSortCall

(***************************************************************************)
(* Streaming export: chip_export and chip_export_aggregated                *)
(* (contracts/views.py). The generator runs from one yield to the next     *)
(* when the server asks for a chunk, and is closed at a yield when the     *)
(* consumer has gone.                                                      *)
(***************************************************************************)
\* fetch_size = 5000, write_size = 2000, page_size = 10000, in units that
\* keep the model small: a fetch covers two writes and a half, a page of the
\* aggregated export is two rows.
fetch_size == 5
write_size == 2
agg_page_size == 2

ExportKinds == {"records", "aggregated"}

\* pc: where the generator stands ("start": not yet run; "y_header",
\* "y_rows", "y_final": suspended at a yield; "calling": about to call the
\* service through _call_service_with_retries; "fetching": about to call
\* fetchmany; "ended"). total: the rows (groups) the query selects. attempt:
\* the failures of the call under way. batch: rows fetched and not yet
\* handled by the for loop. row_buffer: rows waiting to be written. written:
\* rows handed to the consumer. fetches: the calls of the executor made.
\* error: the exception that left the generator. execFailed: the executor
\* failed and no retry made up for it. pageRows: the groups of the page not
\* yet written; emitted: the groups written, in order; peak: the most rows
\* held at once, fetched and not yet written.
NewExport(kind, files, total) ==
    [kind |-> kind, files |-> files, total |-> total, pc |-> "start",
     outcome |-> "running", attempt |-> 0, page |-> 1, pageLen |-> 0,
     batch |-> 0, row_buffer |-> 0, written |-> 0, fetched |-> 0,
     fetches |-> 0, header |-> FALSE, error |-> "none", execFailed |-> FALSE,
     disconnected |-> FALSE, pageRows |-> <<>>, emitted |-> <<>>, peak |-> 0]

Yields == {"y_header", "y_rows", "y_final"}

Completed(g) == [g EXCEPT !.pc = "ended", !.outcome = "completed"]

\* An exception leaves the generator: neither generate() handles it (the
\* record-level one logs and re-raises), and the view's except clause, which
\* would make an ExportError of it, was left when the response was returned.
Raised(g) ==
    [g EXCEPT !.pc = "ended", !.outcome = "raised", !.error = "Exception",
              !.execFailed = TRUE]

\* The first run: the header row is written and yielded, before the try.
generate_header ==
    /\ exp.outcome = "running" /\ exp.pc = "start"
    /\ exp' = [exp EXCEPT !.pc = "y_header", !.header = TRUE]

ConsumeBatchKeeping(g) ==
    [g EXCEPT !.row_buffer = @ + g.batch, !.batch = 0, !.pc = "fetching"]

\* The for loop over a batch of the record-level export, up to its next
\* yield or to the end of the batch.
ConsumeBatch(g) ==
    IF g.row_buffer + g.batch >= write_size
    THEN [g EXCEPT !.batch = g.batch - (write_size - g.row_buffer),
                   !.row_buffer = 0, !.written = @ + write_size,
                   !.pc = "y_rows"]
    ELSE [g EXCEPT !.row_buffer = @ + g.batch, !.batch = 0, !.pc = "fetching"]

\* The rows of a page of the aggregated export after the one just yielded.
NextAggregateRow(g) ==
    IF g.batch > 0
    THEN [g EXCEPT !.batch = @ - 1, !.written = @ + 1, !.pc = "y_rows",
                   !.emitted = Append(@, Head(g.pageRows)),
                   !.pageRows = Tail(@)]
    ELSE IF g.pageLen < agg_page_size
    THEN Completed(g)
    ELSE [g EXCEPT !.page = @ + 1, !.attempt = 0, !.pc = "calling"]

\* next(generator) while it is suspended at a yield.
resume ==
    /\ exp.outcome = "running" /\ exp.pc \in Yields
    /\ exp' = CASE exp.pc = "y_header" -> [exp EXCEPT !.pc = "calling"]
                [] exp.pc = "y_final" -> Completed(exp)
                [] exp.kind = "records" -> ConsumeBatch(exp)
                [] OTHER -> NextAggregateRow(exp)

\* _call_service_with_retries, one turn of its loop, when the method raised:
\* attempt += 1; if attempt > retries: raise; else sleep and try again.
RetryOrRaise(g) ==
    IF g.attempt + 1 > retries
    THEN Raised([g EXCEPT !.attempt = @ + 1, !.fetches = @ + 1])
    ELSE [g EXCEPT !.attempt = @ + 1, !.fetches = @ + 1]

\* The record-level export's call of search_contracts_with_chips_streaming:
\* it raises, returns None (no file) or returns the relation.
StreamingCall(g, outcome) ==
    IF outcome = "raise" THEN RetryOrRaise(g)
    ELSE IF g.files = 0 THEN Completed([g EXCEPT !.fetches = @ + 1])
    ELSE [g EXCEPT !.fetches = @ + 1, !.pc = "fetching"]

\* The groups of the aggregated export are 1..total. Group 1 has the
\* largest total_value, and groups 2k and 2k + 1 have the same one.
TiePairs(total) == {k \in 1..total : 2 * k + 1 <= total}

\* ORDER BY total_value DESC as one run of the query gives it: the groups of
\* the pairs in flip come in the other order.
GroupOrder(total, flip) ==
    [pos \in 1..total |->
        IF pos \div 2 \in flip
        THEN IF pos % 2 = 0 THEN pos + 1 ELSE pos - 1
        ELSE pos]

\* The aggregated export's call of chip_aggregates_paginated for a page: it
\* raises (outside its try), returns {'success': False, 'data': []} from its
\* except branch, or returns the rows of the page, LIMIT page_size OFFSET
\* (page - 1) * page_size of the order of this run.
PageCall(g, outcome, flip) ==
    LET offset == (g.page - 1) * agg_page_size
        left == g.total - offset
        n == IF left <= 0 THEN 0
             ELSE IF left < agg_page_size THEN left ELSE agg_page_size
        rows == SubSeq(GroupOrder(g.total, flip), offset + 1, offset + n)
    IN CASE outcome = "raise" -> RetryOrRaise(g)
         [] outcome = "failed" ->
                \* rows = result.get('data', []); if not rows: break
                Completed([g EXCEPT !.fetches = @ + 1, !.execFailed = TRUE])
         [] OTHER ->
                IF n = 0 THEN Completed([g EXCEPT !.fetches = @ + 1])
                ELSE [g EXCEPT !.fetches = @ + 1, !.fetched = @ + n,
                               !.pageLen = n, !.batch = n - 1,
                               !.written = @ + 1, !.pc = "y_rows",
                               !.emitted = Append(@, rows[1]),
                               !.pageRows = Tail(rows)]

call_service_with_retries(outcome) ==
    /\ exp.outcome = "running" /\ exp.pc = "calling"
    /\ outcome \in (IF exp.kind = "records" THEN {"ok", "raise"}
                    ELSE {"ok", "failed", "raise"})
    /\ IF exp.kind = "records"
       THEN exp' = StreamingCall(exp, outcome)
       ELSE \E flip \in SUBSET TiePairs(exp.total) :
               exp' = PageCall(exp, outcome, flip)

\* batch = result_relation.fetchmany(fetch_size); an error is logged and
\* raised again. An empty batch ends the loop, and what is left in
\* row_buffer is written.
fetchmany(outcome) ==
    /\ exp.outcome = "running" /\ exp.pc = "fetching"
    /\ LET left == exp.total - exp.fetched
           n == IF left < fetch_size THEN left ELSE fetch_size
           g == [exp EXCEPT !.fetches = @ + 1]
       IN exp' = IF outcome = "raise" THEN Raised(g)
                 ELSE IF n = 0
                 THEN IF g.row_buffer > 0
                      THEN [g EXCEPT !.written = @ + g.row_buffer,
                                     !.row_buffer = 0, !.pc = "y_final"]
                      ELSE Completed(g)
                 ELSE ConsumeBatch([g EXCEPT !.batch = n, !.fetched = @ + n,
                                             !.peak = IF g.row_buffer + n > @
                                                      THEN g.row_buffer + n ELSE @])

ExitAsException(g) == "Exception"

\* generator.close() throws GeneratorExit at the yield where the generator
\* is suspended. At the header's yield no try is open and GeneratorExit
\* leaves the generator; at the others `except GeneratorExit: return` ends
\* it.
ExitAt(g) == IF g.pc \in {"start", "y_header"} THEN "GeneratorExit" ELSE "return"

\* close() takes a return and a GeneratorExit as the end of the generator,
\* and lets any other exception through.
CloseResult(how) == IF how \in {"GeneratorExit", "return"} THEN "closed" ELSE "raised"

OnGeneratorExit(g) == CloseResult(ExitAt(g))

\* The consumer has gone: the server closes the generator.
close ==
    /\ exp.outcome = "running" /\ exp.pc \in Yields \cup {"start"}
    /\ exp' = [exp EXCEPT !.pc = "ended", !.outcome = OnGeneratorExit(exp),
                          !.disconnected = TRUE]

ExportNext ==
    \/ generate_header
    \/ resume
    \/ \E o \in {"ok", "failed", "raise"} : call_service_with_retries(o)
    \/ \E o \in {"ok", "raise"} : fetchmany(o)
    \/ close

\* The rows written so far: the record-level export reads one relation from
\* its start, so they are its first rows in its order.
Emitted(g) ==
    IF g.kind = "records" THEN [i \in 1..g.written |-> i] ELSE g.emitted

InitExport ==
    exp \in {NewExport(k, 0, 0) : k \in ExportKinds}
            \cup {NewExport(k, 1, n) : k \in ExportKinds, n \in 0..MaxExportRows}

IdleExport == exp = NewExport("records", 0, 0)


(***************************************************************************)
(* Filter compilers: _build_chip_where_conditions, the WHERE builders of   *)
(* chip_aggregates and chip_aggregates_paginated, and the one of           *)
(* search_contracts (contracts/parquet_search.py). Text is a sequence of   *)
(* characters; a compiled WHERE clause is given by the rows it keeps.      *)
(***************************************************************************)
\* SQL NULL in a text column.
Null == <<"<null>">>

\* str.lower() and SQL LOWER() on the letters of the model.
LowerChar(c) ==
    CASE c = "A" -> "a" [] c = "B" -> "b" [] c = "C" -> "c"
      [] c = "N" -> "n" [] c = "R" -> "r" [] OTHER -> c

LowerText(s) == [i \in 1..Len(s) |-> LowerChar(s[i])]

\* str.strip()
RECURSIVE LStrip(_)
LStrip(s) == IF s # <<>> /\ Head(s) = " " THEN LStrip(Tail(s)) ELSE s

RECURSIVE RStrip(_)
RStrip(s) ==
    IF s # <<>> /\ s[Len(s)] = " " THEN RStrip(SubSeq(s, 1, Len(s) - 1)) ELSE s

Strip(s) == RStrip(LStrip(s))

\* str.split('&&')
RECURSIVE SplitAnd(_)
SplitAnd(s) ==
    LET at == {i \in 1..(Len(s) - 1) : s[i] = "&" /\ s[i + 1] = "&"} IN
    IF at = {} THEN <<s>>
    ELSE LET i == CHOOSE j \in at : \A k \in at : j <= k
         IN <<SubSeq(s, 1, i - 1)>> \o SplitAnd(SubSeq(s, i + 2, Len(s)))

\* _parse_and_keywords: [kw.strip() for kw in s.split('&&') if kw.strip()]
parse_and_keywords(keyword_string) ==
    IF Strip(keyword_string) = <<>> THEN <<>>
    ELSE LET pieces == SplitAnd(keyword_string)
             Kept(p) == Strip(p) # <<>>
             kept == SelectSeq(pieces, Kept)
         IN [i \in 1..Len(kept) |-> Strip(kept[i])]

\* _escape_sql_like: quotes and backslashes are doubled; % and _ stay.
RECURSIVE escape_sql_like(_)
escape_sql_like(value) ==
    IF value = <<>> THEN <<>>
    ELSE IF Head(value) \in {"'", "\\"}
    THEN <<Head(value), Head(value)>> \o escape_sql_like(Tail(value))
    ELSE <<Head(value)>> \o escape_sql_like(Tail(value))

\* The text a quoted SQL literal stands for: '' is one quote.
RECURSIVE SqlLiteral(_)
SqlLiteral(q) ==
    IF q = <<>> THEN <<>>
    ELSE IF Len(q) >= 2 /\ q[1] = "'" /\ q[2] = "'"
    THEN <<"'">> \o SqlLiteral(SubSeq(q, 3, Len(q)))
    ELSE <<Head(q)>> \o SqlLiteral(Tail(q))

\* s LIKE p: % stands for any text, _ for any one character.
RECURSIVE Like(_, _)
Like(s, p) ==
    IF p = <<>> THEN s = <<>>
    ELSE IF Head(p) = "%"
    THEN Like(s, Tail(p)) \/ (s # <<>> /\ Like(Tail(s), p))
    ELSE /\ s # <<>>
         /\ (Head(p) = "_" \/ Head(p) = Head(s))
         /\ Like(Tail(s), Tail(p))

\* t occurs in s.
Contains(s, sub) ==
    \E i \in 0..(Len(s) - Len(sub)) : SubSeq(s, i + 1, i + Len(sub)) = sub

\* LOWER(column) LIKE LOWER('%<escaped>%'): NULL is kept by no condition.
LikeCondition(value, keyword) ==
    /\ value # Null
    /\ Like(LowerText(value),
            LowerText(<<"%">> \o SqlLiteral(escape_sql_like(keyword)) \o <<"%">>))

\* CONTAINS(LOWER(search_text), LOWER('<escaped>'))
ContainsCondition(value, keyword) ==
    /\ value # Null
    /\ Contains(LowerText(value), LowerText(SqlLiteral(escape_sql_like(keyword))))

\* The chips of a list that give a condition: not blank, and with a keyword.
ChipsWithKeywords(chips) ==
    LET Gives(c) == Strip(c) # <<>> /\ parse_and_keywords(Strip(c)) # <<>>
    IN SelectSeq(chips, Gives)

\* The condition a chip list adds for its column: the OR over the chips of
\* the AND over a chip's keywords; none when no chip gives one.
ChipListCondition(chips, value, contains) ==
    LET given == ChipsWithKeywords(chips) IN
    IF given = <<>> THEN TRUE
    ELSE \E i \in 1..Len(given) :
            LET ks == parse_and_keywords(Strip(given[i])) IN
            \A j \in 1..Len(ks) :
                IF contains THEN ContainsCondition(value, ks[j])
                ELSE LikeCondition(value, ks[j])

\* The five chip dimensions of a request against a row. keywordContains: the
\* aggregate builders match keywords with CONTAINS.
ChipConditions(req, row, keywordContains) ==
    /\ ChipListCondition(req.business_categories, row.business_category, FALSE)
    /\ ChipListCondition(req.contractors, row.awardee_name, FALSE)
    /\ ChipListCondition(req.organizations, row.organization_name, FALSE)
    /\ ChipListCondition(req.areas, row.area_of_delivery, FALSE)
    /\ ChipListCondition(req.keywords, row.search_text, keywordContains)

\* The rows the compiled clauses are applied to. award_date is yyyymmdd.
SampleRows ==
    <<[awardee_name |-> <<"a", "b", "c">>, organization_name |-> <<"d", "p", "w", "h">>,
       area_of_delivery |-> <<"n", "c", "r">>, business_category |-> <<"c", "a", "t">>,
       search_text |-> <<"a", "b", "c", " ", "r", "d">>, award_date |-> 20210215,
       contract_amount |-> 100],
      [awardee_name |-> <<"A", "x", "C">>, organization_name |-> Null,
       area_of_delivery |-> Null, business_category |-> <<"c", "a", "t">>,
       search_text |-> <<"A", "x", "C">>, award_date |-> 20210820,
       contract_amount |-> 200],
      [awardee_name |-> <<"b">>, organization_name |-> <<"f", "l", "o", "o", "d">>,
       area_of_delivery |-> <<"n", "c", "r">>, business_category |-> <<"d", "o", "g">>,
       search_text |-> <<"b">>, award_date |-> 20200101,
       contract_amount |-> 200]>>

RowIds == 1..Len(SampleRows)

AllContractors == <<"A", "l", "l", " ", "C", "o", "n", "t", "r", "a", "c", "t", "o", "r", "s">>

\* The chip lists of the requests.
NoChips == <<>>
ContractorChips ==
    {NoChips, <<<<" ", " ">>>>, <<<<"A", "B">>>>, <<<<"a", " ", "&", "&", " ", "c">>>>, <<<<"a", "_", "c">>>>, <<<<"b">>, <<"x">>>>,
     <<<<"&", "&">>>>, <<AllContractors>>}
OrganizationChips == {NoChips, <<<<"d", "p">>>>}
AreaChips == {NoChips, <<<<"N", "C", "R">>>>}
CategoryChips == {NoChips, <<<<"c", "a", "t">>>>}
KeywordChips == {NoChips, <<<<"r", "d", " ", "&", "&", " ", "a", "b", "c">>>>, <<<<"x", "_">>>>}

\* A field of a time range entry or of a single-value request: absent, an
\* integer, a text that is no number, a 'YYYY-MM-DD' text that is a date (n
\* is yyyymmdd), a text of that length that is no date.
Absent_ == [k |-> "none", n |-> 0]
IntField(n) == [k |-> "int", n |-> n]
BadText == [k |-> "text", n |-> 0]
DateField(n) == [k |-> "date", n |-> n]
BadDate == [k |-> "baddate", n |-> 0]

\* bool(x) of such a field
Truthy(x) == x.k # "none" /\ ~(x.k = "int" /\ x.n = 0)

TimeRange(type, year, quarter, startDate, endDate) ==
    [type |-> type, year |-> year, quarter |-> quarter,
     startDate |-> startDate, endDate |-> endDate]

Yearly2021 == TimeRange("yearly", IntField(2021), Absent_, Absent_, Absent_)
YearlyText == TimeRange("yearly", BadText, Absent_, Absent_, Absent_)
YearlyNoYear == TimeRange("yearly", Absent_, Absent_, Absent_, Absent_)
Quarter1 == TimeRange("quarterly", IntField(2021), IntField(1), Absent_, Absent_)
Quarter5 == TimeRange("quarterly", IntField(2021), IntField(5), Absent_, Absent_)
FirstHalf == TimeRange("custom", Absent_, Absent_, DateField(20210101), DateField(20210630))
Backwards == TimeRange("custom", Absent_, Absent_, DateField(20211231), DateField(20210101))
NoSuchDay == TimeRange("custom", Absent_, Absent_, BadDate, DateField(20210630))
NumberForDate == TimeRange("custom", Absent_, Absent_, IntField(20210101), DateField(20210630))
Monthly == TimeRange("monthly", IntField(2021), Absent_, Absent_, Absent_)
NotADict == TimeRange("notdict", Absent_, Absent_, Absent_, Absent_)

TimeRangeLists ==
    {<<>>, <<Yearly2021>>, <<YearlyText>>, <<YearlyNoYear>>, <<Quarter1>>,
     <<Quarter5>>, <<FirstHalf>>, <<Backwards>>, <<NoSuchDay>>,
     <<NumberForDate>>, <<Monthly>>, <<NotADict>>,
     <<Quarter5, Yearly2021>>, <<YearlyText, FirstHalf>>, <<Quarter1, FirstHalf>>}

\* The requests: every combination of chip lists with two time filters, and
\* every time filter with two contractor lists.
FilterRequests ==
    [contractors : ContractorChips, organizations : OrganizationChips,
     areas : AreaChips, business_categories : CategoryChips,
     keywords : KeywordChips, time_ranges : {<<>>, <<Yearly2021>>},
     value_range : {[min |-> None, max |-> None], [min |-> Some(200), max |-> None]},
     include_flood_control : BOOLEAN]
    \cup
    [contractors : {NoChips, <<<<"A", "B">>>>}, organizations : {NoChips},
     areas : {NoChips}, business_categories : {NoChips},
     keywords : {NoChips}, time_ranges : TimeRangeLists,
     value_range : {[min |-> None, max |-> None], [min |-> Some(200), max |-> None]},
     include_flood_control : BOOLEAN]

NoFilterRequest ==
    [contractors |-> NoChips, organizations |-> NoChips, areas |-> NoChips,
     business_categories |-> NoChips, keywords |-> NoChips,
     time_ranges |-> <<>>, value_range |-> [min |-> None, max |-> None],
     include_flood_control |-> FALSE]

YearOf(d) == d \div 10000
MonthOf(d) == (d \div 100) % 100
QuarterOf(d) == (MonthOf(d) + 2) \div 3

\* A time condition: what it says of an award date. kind "year": the year
\* is y; "quarter": the year is y and the quarter is q; "range": the date is
\* from..to.
TimeConditionHolds(c, d) ==
    CASE c.kind = "year" -> YearOf(d) = c.y
      [] c.kind = "quarter" -> YearOf(d) = c.y /\ QuarterOf(d) = c.q
      [] OTHER -> d >= c.from /\ d <= c.to

YearCondition(y) == [kind |-> "year", y |-> y, q |-> 0, from |-> 0, to |-> 0]
QuarterCondition(y, q) == [kind |-> "quarter", y |-> y, q |-> q, from |-> 0, to |-> 0]
RangeCondition(a, b) == [kind |-> "range", y |-> 0, q |-> 0, from |-> a, to |-> b]

\* What one entry does to time_conditions in _build_chip_where_conditions and
\* in chip_aggregates: "cond" appends c, "skip" appends nothing, "raise" is an
\* exception no except clause of the builder takes.
TimeEntryChecked(tr) ==
    CASE tr.type = "notdict" -> [do |-> "raise", c |-> YearCondition(0)]
      [] tr.type = "yearly" /\ Truthy(tr.year) ->
            IF tr.year.k = "int"
            THEN [do |-> "cond", c |-> YearCondition(tr.year.n)]
            ELSE [do |-> "skip", c |-> YearCondition(0)]
      [] tr.type = "quarterly" /\ Truthy(tr.year) /\ Truthy(tr.quarter) ->
            IF tr.year.k = "int" /\ tr.quarter.k = "int" /\ tr.quarter.n \in 1..4
            THEN [do |-> "cond", c |-> QuarterCondition(tr.year.n, tr.quarter.n)]
            ELSE [do |-> "skip", c |-> YearCondition(0)]
      [] tr.type = "custom" /\ Truthy(tr.startDate) /\ Truthy(tr.endDate) ->
            \* len() of a number is a TypeError; strptime of a text that is
            \* no date is a ValueError, which is caught
            IF tr.startDate.k = "int" \/ tr.endDate.k = "int"
            THEN [do |-> "raise", c |-> YearCondition(0)]
            ELSE IF tr.startDate.k = "date" /\ tr.endDate.k = "date"
            THEN [do |-> "cond", c |-> RangeCondition(tr.startDate.n, tr.endDate.n)]
            ELSE [do |-> "skip", c |-> YearCondition(0)]
      [] OTHER -> [do |-> "skip", c |-> YearCondition(0)]

\* The same in chip_aggregates_paginated, which puts the fields into the
\* clause as they are: "sql" is a clause the engine rejects.
TimeEntryUnchecked(tr) ==
    CASE tr.type = "notdict" -> [do |-> "raise", c |-> YearCondition(0)]
      [] tr.type = "yearly" /\ Truthy(tr.year) ->
            IF tr.year.k = "int"
            THEN [do |-> "cond", c |-> YearCondition(tr.year.n)]
            ELSE [do |-> "sql", c |-> YearCondition(0)]
      [] tr.type = "quarterly" /\ Truthy(tr.year) /\ Truthy(tr.quarter) ->
            IF tr.year.k = "int" /\ tr.quarter.k = "int"
            THEN [do |-> "cond", c |-> QuarterCondition(tr.year.n, tr.quarter.n)]
            ELSE [do |-> "sql", c |-> YearCondition(0)]
      [] tr.type = "custom" /\ Truthy(tr.startDate) /\ Truthy(tr.endDate) ->
            IF tr.startDate.k = "date" /\ tr.endDate.k = "date"
            THEN [do |-> "cond", c |-> RangeCondition(tr.startDate.n, tr.endDate.n)]
            ELSE [do |-> "sql", c |-> YearCondition(0)]
      [] OTHER -> [do |-> "skip", c |-> YearCondition(0)]

Compilers == {"search", "aggregates", "paginated"}

\* get_value_distribution compiles with _build_chip_where_conditions too.
Executors == Compilers \cup {"distribution"}

TimeEntry(compiler, tr) ==
    IF compiler = "paginated" THEN TimeEntryUnchecked(tr) ELSE TimeEntryChecked(tr)

\* How building and running the time part of the clause ends.
TimeOutcome(compiler, time_ranges) ==
    LET does == {TimeEntry(compiler, time_ranges[i]).do : i \in 1..Len(time_ranges)}
    IN IF "raise" \in does THEN "raise"
       ELSE IF "sql" \in does THEN "sql_error"
       ELSE "ok"

\* The time part of the clause: the OR of time_conditions, none when the
\* list is empty.
TimeCondition(compiler, time_ranges, d) ==
    LET conds == {i \in 1..Len(time_ranges) :
                     TimeEntry(compiler, time_ranges[i]).do = "cond"}
    IN conds = {} \/
       \E i \in conds : TimeConditionHolds(TimeEntry(compiler, time_ranges[i]).c, d)

\* "LOWER(organization_name) NOT LIKE '%flood%'", which the paginated
\* builder adds unless include_flood_control.
FloodCondition(row) ==
    /\ row.organization_name # Null
    /\ ~Like(LowerText(row.organization_name), <<"%", "f", "l", "o", "o", "d", "%">>)

\* The WHERE clause a compiler builds for a request, as what it says of a row.
WhereClause(compiler, req, row) ==
    /\ ChipConditions(req, row, compiler \in {"aggregates", "paginated"})
    /\ TimeCondition(compiler, req.time_ranges, row.award_date)
    /\ ValueRangeCondition(row, req.value_range)
    /\ (compiler = "paginated" /\ ~req.include_flood_control) => FloodCondition(row)
    /\ (compiler = "distribution") => row.contract_amount > 0

\* Whether the executor builds its clause inside its try block.
BuiltInsideTry(compiler) == compiler = "distribution"

\* What the executor hands to its caller: "success" and "failure" are the
\* dicts with that value of 'success', "exception" is an exception leaving
\* the executor. chip_aggregates runs each view in a try of its own, so a
\* rejected query leaves it with empty views and success.
Returned(compiler, outcome) ==
    CASE outcome = "ok" -> "success"
      [] outcome = "sql_error" ->
            IF compiler = "aggregates" THEN "success" ELSE "failure"
      [] OTHER -> IF BuiltInsideTry(compiler) THEN "failure" ELSE "exception"

NoCompiled ==
    [called |-> FALSE, compiler |-> "none", req |-> NoFilterRequest,
     outcome |-> "none", result |-> "none", matched |-> {}]

Compiled(compiler, req) ==
    LET outcome == TimeOutcome(compiler, req.time_ranges) IN
    [called |-> TRUE, compiler |-> compiler, req |-> req, outcome |-> outcome,
     result |-> Returned(compiler, outcome),
     matched |-> IF outcome = "ok"
                 THEN {i \in RowIds : WhereClause(compiler, req, SampleRows[i])}
                 ELSE {}]

build_chip_where_conditions(req) ==
    /\ ~flt.called
    /\ flt' = Compiled("search", req)

chip_aggregates_where(req) ==
    /\ ~flt.called
    /\ flt' = Compiled("aggregates", req)

chip_aggregates_paginated_where(req) ==
    /\ ~flt.called
    /\ flt' = Compiled("paginated", req)

get_value_distribution_where(req) ==
    /\ ~flt.called
    /\ flt' = Compiled("distribution", req)

\* search_contracts: one text per dimension, the "All ..." placeholders
\* left out, no escaping and no splitting.
SingleValues == {<<>>, AllContractors, <<"A", "B">>, <<"a", "_", "c">>}

SingleCondition(value, text, placeholder) ==
    (text # <<>> /\ text # placeholder) =>
        (value # Null /\ Like(LowerText(value), LowerText(<<"%">> \o text \o <<"%">>)))

search_contracts_where(contractor) ==
    /\ ~flt.called
    /\ flt' = [called |-> TRUE, compiler |-> "single",
               req |-> [NoFilterRequest EXCEPT !.contractors =
                           IF contractor = <<>> THEN NoChips ELSE <<contractor>>],
               outcome |-> "ok", result |-> "success",
               matched |-> {i \in RowIds :
                   SingleCondition(SampleRows[i].awardee_name, contractor,
                                   AllContractors)}]

FilterNext ==
    \/ \E req \in FilterRequests : build_chip_where_conditions(req)
    \/ \E req \in FilterRequests : chip_aggregates_where(req)
    \/ \E req \in FilterRequests : chip_aggregates_paginated_where(req)
    \/ \E req \in FilterRequests : get_value_distribution_where(req)
    \/ \E c \in SingleValues : search_contracts_where(c)

IdleFilter == flt = NoCompiled

(***************************************************************************)
(* chip_aggregates (contracts/parquet_search.py): seven views over the     *)
(* filtered rows, each query run in a try block of its own.                *)
(***************************************************************************)
Views ==
    {"summary", "by_year", "by_month", "by_contractor", "by_organization",
     "by_area", "by_category"}

RECURSIVE SumAmount(_)
SumAmount(ids) ==
    IF ids = {} THEN 0
    ELSE LET i == CHOOSE j \in ids : TRUE
         IN SampleRows[i].contract_amount + SumAmount(ids \ {i})

\* The GROUP BY expression of a view; the month '%Y-%m' is kept as yyyymm.
ViewKey(view, row) ==
    CASE view = "by_year" -> YearOf(row.award_date)
      [] view = "by_month" -> row.award_date \div 100
      [] view = "by_contractor" -> row.awardee_name
      [] view = "by_organization" -> row.organization_name
      [] view = "by_area" -> row.area_of_delivery
      [] OTHER -> row.business_category

\* The rows a view's query returns from filtered_data: one row for the
\* summary, else one for each value of the key that is not NULL. LIMIT topN
\* (20 unless the caller says otherwise) cuts nothing from the groups here.
ViewRows(view, ids) ==
    IF view = "summary"
    THEN {[count |-> Cardinality(ids),
           total_value |-> IF ids = {} THEN None ELSE Some(SumAmount(ids)),
           avg_value |-> IF ids = {} THEN None
                         ELSE Some(SumAmount(ids) \div Cardinality(ids))]}
    ELSE LET kept == {i \in ids : view \in {"by_year", "by_month"}
                                    \/ ViewKey(view, SampleRows[i]) # Null}
             Same(i) == {j \in kept : ViewKey(view, SampleRows[j]) =
                                        ViewKey(view, SampleRows[i])}
         IN {[label |-> ViewKey(view, SampleRows[i]),
              total_value |-> SumAmount(Same(i)),
              count |-> Cardinality(Same(i))] : i \in kept}

ViewFailureSpreads(view, failing, ids) ==
    IF failing # {} THEN {} ELSE ViewRows(view, ids)

\* One turn of `for key, q in queries.items()`: the rows of the view, or []
\* from the inner except when its query fails.
ViewResult(view, failing, ids) ==
    IF view \in failing THEN {} ELSE ViewRows(view, ids)

AggregateRequests ==
    {[NoFilterRequest EXCEPT !.contractors = c, !.time_ranges = t] :
        c \in {NoChips, <<<<"A", "B">>>>, <<<<"b">>, <<"x">>>>},
        t \in {<<>>, <<Yearly2021>>, <<NotADict>>}}

NoAggregates ==
    [called |-> FALSE, req |-> NoFilterRequest, failing |-> {},
     result |-> "none", data |-> [v \in {} |-> {}]]

\* One call. failing: the views whose query the engine fails;
\* connection: get_connection raises. An exception of the WHERE builder
\* leaves the call; one of get_connection is taken by the outer except.
ParquetSearchService_chip_aggregates(req, failing, connection) ==
    /\ ~agg.called
    /\ LET where == Compiled("aggregates", req) IN
       agg' = [called |-> TRUE, req |-> req, failing |-> failing,
               result |-> IF where.outcome = "raise" THEN "exception"
                          ELSE IF connection THEN "failure"
                          ELSE "success",
               data |-> IF where.outcome = "raise" \/ connection
                        THEN [v \in {} |-> {}]
                        ELSE [v \in Views |->
                                ViewResult(v, IF where.outcome = "sql_error"
                                              THEN Views ELSE failing,
                                           where.matched)]]

AggregatesNext ==
    \E req \in AggregateRequests, failing \in SUBSET Views, connection \in BOOLEAN :
        ParquetSearchService_chip_aggregates(req, failing, connection)

IdleAggregates == agg = NoAggregates

(***************************************************************************)
(* chip_aggregates_paginated (contracts/parquet_search.py): the groups of  *)
(* one dimension over the filtered rows, sorted and cut to a page. The     *)
(* rows are those of the primary file.                                     *)
(***************************************************************************)
Dimensions ==
    {"by_contractor", "by_organization", "by_area", "by_category", "by_month"}

\* group_column = dimension_columns.get(dimension, 'awardee_name')
GroupColumn(dimension) ==
    CASE dimension = "by_organization" -> "organization_name"
      [] dimension = "by_area" -> "area_of_delivery"
      [] dimension = "by_category" -> "business_category"
      [] OTHER -> "awardee_name"

\* filtered_data: GROUP BY label, a group for NULL included.
GroupsBy(column, ids) ==
    LET Same(i) == {j \in ids : SampleRows[j][column] = SampleRows[i][column]}
    IN {[label |-> SampleRows[i][column],
         total_value |-> SumAmount(Same(i)),
         count |-> Cardinality(Same(i)),
         avg_value |-> SumAmount(Same(i)) \div Cardinality(Same(i))] : i \in ids}

\* ORDER BY <sort_column> <direction>: each arrangement of the groups that
\* is in order.
GroupsInOrder(groups, field, dir) ==
    {o \in [1..Cardinality(groups) -> groups] :
        /\ \A g \in groups : \E i \in DOMAIN o : o[i] = g
        /\ InOrder(o, field, dir)}

PaginatedDirections == {"asc", "desc", "sideways"}

PaginatedCalls ==
    [req : {[NoFilterRequest EXCEPT !.contractors = c, !.time_ranges = t,
                                    !.include_flood_control = f] :
               c \in {NoChips, <<<<"b">>, <<"x">>>>},
               t \in {<<>>, <<Yearly2021>>, <<YearlyText>>},
               f \in BOOLEAN},
     dimension : Dimensions, sort_by : AggregateSortChoices,
     sort_direction : PaginatedDirections, page : 1..2, page_size : {1, 20}]

NoPaginated ==
    [called |-> FALSE, success |-> FALSE, data |-> <<>>, total_count |-> 0,
     total_pages |-> 0,
     call |-> [req |-> NoFilterRequest, dimension |-> "by_contractor",
               sort_by |-> "total_value", sort_direction |-> "desc",
               page |-> 1, page_size |-> 20]]

\* The return value of the except branch.
PaginatedFailure(call) ==
    [called |-> TRUE, success |-> FALSE, data |-> <<>>, total_count |-> 0,
     total_pages |-> 0, call |-> call]

\* One call whose WHERE clause is built. The direction goes into ORDER BY
\* in upper case as it is, so the engine rejects one that is no direction.
ParquetSearchService_chip_aggregates_paginated(call) ==
    /\ ~pagg.called
    /\ LET where == Compiled("paginated", call.req)
           groups == GroupsBy(GroupColumn(call.dimension), where.matched)
           dir == IF call.sort_direction = "desc" THEN "DESC" ELSE "ASC"
       IN IF where.outcome # "ok" \/ call.sort_direction \notin {"asc", "desc"}
          THEN pagg' = PaginatedFailure(call)
          ELSE \E o \in GroupsInOrder(groups, SortColumn(call.sort_by), dir) :
                 LET data == Limit(o, call.page_size, Offset(call.page, call.page_size))
                     total_count == IF data # <<>> THEN Cardinality(groups) ELSE 0
                 IN pagg' = [called |-> TRUE, success |-> TRUE, data |-> data,
                             total_count |-> total_count,
                             total_pages |->
                                 (total_count + call.page_size - 1) \div call.page_size,
                             call |-> call]

PaginatedNext ==
    \E call \in PaginatedCalls : ParquetSearchService_chip_aggregates_paginated(call)

IdlePaginated == pagg = NoPaginated

(***************************************************************************)
(* get_value_distribution (contracts/parquet_search.py): the histogram of  *)
(* the positive amounts of the filtered rows.                              *)
(***************************************************************************)
Amounts == {0, 100, 175, 200}

NumBins == {1, 2, 3, 4}

\* The contract_amount column of the rows the filters keep.
AmountLists == UNION {[1..n -> Amounts] : n \in 0..MaxRows}

\* base_query: contract_amount IS NOT NULL AND contract_amount > 0
PositiveAmounts(amounts) ==
    LET Positive(a) == a > 0 IN SelectSeq(amounts, Positive)

RECURSIVE MinOf(_)
MinOf(s) ==
    IF Len(s) = 1 THEN s[1]
    ELSE LET m == MinOf(Tail(s)) IN IF s[1] < m THEN s[1] ELSE m

RECURSIVE MaxOf(_)
MaxOf(s) ==
    IF Len(s) = 1 THEN s[1]
    ELSE LET m == MaxOf(Tail(s)) IN IF s[1] > m THEN s[1] ELSE m

\* What the engine makes of x / 0: NULL, or NaN with IEEE arithmetic.
ZeroDivisions == {"null", "nan"}

\* FLOOR((contract_amount - min_value) / bin_width) + 1 with
\* bin_width = (max_value - min_value) / num_bins: a number, or what a zero
\* bin_width leaves.
RawBin(amount, min_value, max_value, num_bins, zero) ==
    IF max_value = min_value THEN [k |-> zero, n |-> 0]
    ELSE [k |-> "int",
          n |-> ((amount - min_value) * num_bins) \div (max_value - min_value) + 1]

LeastUnclamped(x, num_bins) == x

\* LEAST(x, num_bins): NULL is passed over and NaN is above every number.
Least(x, num_bins) ==
    IF x.k = "int" /\ x.n <= num_bins THEN x ELSE [k |-> "int", n |-> num_bins]

\* bin_number of a row, NULL included.
BinNumber(amount, min_value, max_value, num_bins, zero) ==
    Least(RawBin(amount, min_value, max_value, num_bins, zero), num_bins)

\* binned_data WHERE bin_number >= 1 AND bin_number <= num_bins GROUP BY
\* bin_number: the count of each bin that has rows.
Bins(positive, num_bins, zero) ==
    LET lo == MinOf(positive)
        hi == MaxOf(positive)
        BinOf(i) == BinNumber(positive[i], lo, hi, num_bins, zero)
        kept == {i \in DOMAIN positive :
                    BinOf(i).k = "int" /\ BinOf(i).n >= 1 /\ BinOf(i).n <= num_bins}
    IN {[bin_number |-> BinOf(i).n,
         count |-> Cardinality({j \in kept : BinOf(j).n = BinOf(i).n})] : i \in kept}

NoHistogram ==
    [called |-> FALSE, success |-> FALSE, amounts |-> <<>>, num_bins |-> 1,
     total_contracts |-> 0, bins |-> {}]

\* One call. files: the parquet files found; amounts: the amounts of the
\* rows the WHERE conditions keep.
get_value_distribution(files, amounts, num_bins, zero) ==
    /\ ~vdist.called
    /\ LET positive == PositiveAmounts(amounts) IN
       vdist' = [called |-> TRUE, amounts |-> amounts, num_bins |-> num_bins,
                success |-> files > 0,
                total_contracts |-> IF files > 0 THEN Len(positive) ELSE 0,
                bins |-> IF files > 0 /\ positive # <<>>
                         THEN Bins(positive, num_bins, zero) ELSE {}]

HistogramNext ==
    \E files \in 0..1, amounts \in AmountLists, num_bins \in NumBins,
       zero \in ZeroDivisions :
        get_value_distribution(files, amounts, num_bins, zero)

IdleHistogram == vdist = NoHistogram

(***************************************************************************)
(* The shared DuckDB connection (contracts/parquet_search.py,              *)
(* get_connection) and the requests that run on it, each in a thread of    *)
(* its own. A connection holds the result of the statement executed last:  *)
(* conn.execute returns the connection, and fetchall, fetchmany and        *)
(* description read what it holds. A query is named by the request that    *)
(* made it; 0 is no connection, no query.                                  *)
(***************************************************************************)
Requesters == {1, 2}

RequestKinds == {"search", "export"}

ConnectionIds == 1..Cardinality(Requesters)

NoRequester ==
    [kind |-> "search", pc |-> "idle", local |-> 0, rows |-> <<>>, columns |-> 0]

NoConnections ==
    [connection |-> 0, made |-> 0, configured |-> {},
     holds |-> [c \in ConnectionIds |-> 0],
     req |-> [r \in Requesters |-> NoRequester]]

At(r, pc) == conn.req[r].pc = pc

Goto(r, pc) == [conn.req[r] EXCEPT !.pc = pc]

\* A request arrives and calls a service method.
request(r, kind) ==
    /\ At(r, "idle")
    /\ conn' = [conn EXCEPT !.req[r] = [NoRequester EXCEPT !.kind = kind,
                                                            !.pc = "get_connection"]]

\* if cls._connection is None:
get_connection_test(r) ==
    /\ At(r, "get_connection")
    /\ conn' = [conn EXCEPT !.req[r] =
                   Goto(r, IF conn.connection = 0 THEN "connect" ELSE "return")]

\* cls._connection = duckdb.connect()
get_connection_connect(r) ==
    /\ At(r, "connect")
    /\ conn' = [conn EXCEPT !.made = @ + 1, !.connection = conn.made + 1,
                            !.req[r] = Goto(r, "configure")]

\* cls._connection.execute("SET ..."), three times, on the attribute as it
\* is at that moment.
get_connection_configure(r) ==
    /\ At(r, "configure")
    /\ conn' = [conn EXCEPT !.configured = @ \cup {conn.connection},
                            !.holds[conn.connection] = 0,
                            !.req[r] = Goto(r, "return")]

\* return cls._connection
get_connection_return(r) ==
    /\ At(r, "return")
    /\ conn' = [conn EXCEPT !.req[r] =
                   [conn.req[r] EXCEPT !.local = conn.connection, !.pc = "execute"]]

\* conn.execute(query)
execute(r) ==
    /\ At(r, "execute")
    /\ conn' = [conn EXCEPT !.holds[conn.req[r].local] = r,
                            !.req[r] = Goto(r, "fetch")]

\* results = conn.execute(final_query).fetchall(), the fetch; in the export,
\* result_relation.fetchmany(fetch_size), twice.
fetch(r) ==
    /\ At(r, "fetch")
    /\ LET me == conn.req[r]
           rows == Append(me.rows, conn.holds[me.local])
       IN conn' = [conn EXCEPT !.req[r] =
                      [me EXCEPT !.rows = rows,
                                 !.pc = IF me.kind = "search" THEN "description"
                                        ELSE IF Len(rows) < 2 THEN "fetch"
                                        ELSE "done"]]

\* columns = [desc[0] for desc in conn.description]
description(r) ==
    /\ At(r, "description")
    /\ conn' = [conn EXCEPT !.req[r] =
                   [conn.req[r] EXCEPT !.columns = conn.holds[conn.req[r].local],
                                       !.pc = "done"]]

ConnectionNext ==
    \E r \in Requesters :
        \/ \E kind \in RequestKinds : request(r, kind)
        \/ get_connection_test(r)
        \/ get_connection_connect(r)
        \/ get_connection_configure(r)
        \/ get_connection_return(r)
        \/ execute(r)
        \/ fetch(r)
        \/ description(r)

IdleConnection == conn = NoConnections

(***************************************************************************)
(* Specifications                                                          *)
(***************************************************************************)
Init == InitTasks /\ InitCache /\ IdleSearch /\ IdleSort /\ IdleExport /\ IdleFilter /\ IdleAggregates /\ IdlePaginated /\ IdleHistogram /\ IdleConnection /\ IdleBroker

Next == TaskNext /\ UNCHANGED <<cacheVars, searchVars, sortVars, exportVars, filterVars, aggregateVars, paginatedVars, histogramVars, connectionVars, brokerVars>>

Spec == Init /\ [][Next]_vars

NextCache == CacheNext /\ UNCHANGED <<taskVars, searchVars, sortVars, exportVars, filterVars, aggregateVars, paginatedVars, histogramVars, connectionVars, brokerVars>>

SpecCache == Init /\ [][NextCache]_vars

InitBroadcastSpec == InitAnyChannel /\ InitCache /\ IdleSearch /\ IdleSort /\ IdleExport /\ IdleFilter /\ IdleAggregates /\ IdlePaginated /\ IdleHistogram /\ IdleConnection /\ IdleBroker

NextBroadcast == BroadcastNext /\ UNCHANGED <<cacheVars, searchVars, sortVars, exportVars, filterVars, aggregateVars, paginatedVars, histogramVars, connectionVars, brokerVars>>

SpecBroadcast == InitBroadcastSpec /\ [][NextBroadcast]_vars

InitResubmitSpec == InitTasks /\ InitCache /\ IdleSearch /\ IdleSort /\ IdleExport /\ IdleFilter /\ IdleAggregates /\ IdlePaginated /\ IdleHistogram /\ IdleConnection /\ InitResubmit

NextResubmit == ResubmitNext /\ UNCHANGED <<cacheVars, searchVars, sortVars, exportVars, filterVars, aggregateVars, paginatedVars, histogramVars, connectionVars, brokerVars>>

SpecResubmit == InitResubmitSpec /\ [][NextResubmit]_vars

InitSearchSpec == InitTasks /\ InitCache /\ InitSearch /\ IdleSort /\ IdleExport /\ IdleFilter /\ IdleAggregates /\ IdlePaginated /\ IdleHistogram /\ IdleConnection /\ IdleBroker

NextSearch == SearchNext /\ UNCHANGED <<taskVars, cacheVars, sortVars, exportVars, filterVars, aggregateVars, paginatedVars, histogramVars, connectionVars, brokerVars>>

SpecSearch == InitSearchSpec /\ [][NextSearch]_vars

NextSort == SortNext /\ UNCHANGED <<taskVars, cacheVars, searchVars, exportVars, filterVars, aggregateVars, paginatedVars, histogramVars, connectionVars, brokerVars>>

SpecSort == Init /\ [][NextSort]_vars

InitExportSpec == InitTasks /\ InitCache /\ IdleSearch /\ IdleSort /\ InitExport /\ IdleFilter /\ IdleAggregates /\ IdlePaginated /\ IdleHistogram /\ IdleConnection /\ IdleBroker

NextExport == ExportNext /\ UNCHANGED <<taskVars, cacheVars, searchVars, sortVars, filterVars, aggregateVars, paginatedVars, histogramVars, connectionVars, brokerVars>>

SpecExport == InitExportSpec /\ [][NextExport]_vars

NextFilter == FilterNext /\ UNCHANGED <<taskVars, cacheVars, searchVars, sortVars, exportVars, aggregateVars, paginatedVars, histogramVars, connectionVars, brokerVars>>

SpecFilter == Init /\ [][NextFilter]_vars

NextAggregates == AggregatesNext /\ UNCHANGED <<taskVars, cacheVars, searchVars, sortVars, exportVars, filterVars, paginatedVars, histogramVars, connectionVars, brokerVars>>

SpecAggregates == Init /\ [][NextAggregates]_vars

NextPaginated == PaginatedNext /\ UNCHANGED <<taskVars, cacheVars, searchVars, sortVars, exportVars, filterVars, aggregateVars, histogramVars, connectionVars, brokerVars>>

SpecPaginated == Init /\ [][NextPaginated]_vars

NextHistogram == HistogramNext /\ UNCHANGED <<taskVars, cacheVars, searchVars, sortVars, exportVars, filterVars, aggregateVars, paginatedVars, connectionVars, brokerVars>>

SpecHistogram == Init /\ [][NextHistogram]_vars

NextConnection == ConnectionNext /\ UNCHANGED <<taskVars, cacheVars, searchVars, sortVars, exportVars, filterVars, aggregateVars, paginatedVars, histogramVars, brokerVars>>

SpecConnection == Init /\ [][NextConnection]_vars

(***************************************************************************)
(* Claims about the task orchestrator                                      *)
(***************************************************************************)
TaskIds == 1..Len(tasks)

\* C1: a retry-enabled task (max_retries 2, or 3 for the export) whose
\* operation raised on its first N-1 attempts and returned on attempt N ends
\* in SUCCESS with retries = N-1; one whose operation raises on every attempt
\* ends in FAILURE exactly when the budget is used up (max_retries + 1 failed
\* attempts) and no worker step is enabled for it afterwards; until a task is
\* terminal a worker step is enabled for it, and retries never exceeds the
\* budget.
RetryBudgetRespected ==
    \A t \in TaskIds :
        LET k == tasks[t] IN
        RetryEnabled(k.kind) =>
            /\ k.retries <= MaxRetriesOf(k.kind)
            /\ (k.state = "SUCCESS" =>
                    k.retries = k.fails /\ k.fails <= MaxRetriesOf(k.kind))
            /\ (k.state = "RETRY" => k.retries = k.fails)
            /\ (k.state = "FAILURE" =>
                    /\ k.fails = MaxRetriesOf(k.kind) + 1
                    /\ k.retries = MaxRetriesOf(k.kind)
                    /\ ~ENABLED Worker(t))
            /\ (k.state \notin Terminal => ENABLED Worker(t))

\* A task that succeeded on its last allowed attempt, and one that used up
\* its budget.
RetriedThenSucceeded ==
    \E t \in TaskIds :
        /\ RetryEnabled(tasks[t].kind)
        /\ tasks[t].state = "SUCCESS"
        /\ tasks[t].retries = MaxRetriesOf(tasks[t].kind)
        /\ tasks[t].retries >= 2

\* C2: every state a task is in (PROGRESS, RETRY, SUCCESS, FAILURE) has been
\* sent, with that state, to the task's own group and to the global group.
EveryTransitionBroadcast ==
    \A t \in TaskIds :
        tasks[t].state \in {"PROGRESS", "RETRY", "SUCCESS", "FAILURE"} =>
            \A g \in {"task", "global"} :
                \E m \in sent :
                    m.task = t /\ m.group = g /\ m.state = tasks[t].state

\* C3: a submission finds a terminal result (an entry that is not an error
\* marker) under its key exactly when it answers 'cached', with that entry
\* and without scheduling; otherwise it answers 'queued' and schedules
\* exactly one task with that key.
TerminalResult(entry) == entry # Absent /\ entry.status # "error"

SubmissionIdempotent ==
    [][(resp' # resp /\ resp'.op \in KeyedKinds) =>
          IF TerminalResult(cache[resp'.key])
          THEN /\ resp'.status = "cached"
               /\ resp'.data = cache[resp'.key]
               /\ tasks' = tasks
          ELSE /\ resp'.status = "queued"
               /\ Len(tasks') = Len(tasks) + 1
               /\ tasks'[resp'.task].key = resp'.key]_vars

\* C4: once a cancelled task is terminal and no task is left to run, a poll
\* of its cache key no longer answers not_ready.
CancelledTaskSettles ==
    \A t \in TaskIds :
        (/\ tasks[t].kind \in KeyedKinds
         /\ tasks[t].state = "REVOKED"
         /\ \A u \in TaskIds : tasks[u].state \in Terminal)
            => CachedStatus(cache[tasks[t].key]) # "not_ready"

\* C5: get_cached_result answers success only with the result of a search
\* or aggregation that succeeded; a failed one, also one reported as
\* {success: False, error}, is answered with error.
CachedResultStatusFaithful ==
    (resp.op = "get_cached_result" /\ resp.status = "success")
        => resp.data.success = "true"

(***************************************************************************)
(* Claims about the response cache                                         *)
(***************************************************************************)
\* C6: every entry of the response cache was produced by a computation
\* whose service call succeeded.
OnlySuccessesCached ==
    \A k \in RKeys : rcache[k] # NoEntry => rcache[k].fromOk

\* C7 as stated: the second of two identical requests made within the TTL
\* returns the body of the first and calls the service not at all.
RepeatIsServedFromCache ==
    rresp.repeat = TRUE => (rresp.body = rresp.prevBody /\ ~rresp.scanned)

\* C7 amended: the second of two identical requests returns the body of the
\* first and calls the service not at all when the first one's response was
\* stored and the entry has not expired.
RepeatOfStoredIsServedFromCache ==
    (rresp.repeat = TRUE /\ rresp.live)
        => (rresp.status = 200 /\ rresp.body = rresp.prevBody /\ ~rresp.scanned)

RepeatWasACacheHit ==
    /\ rresp.repeat = TRUE
    /\ rresp.live
    /\ rresp.ep = "chip_search"
    /\ rresp.xcache = "HIT"

(***************************************************************************)
(* Claims about the query executor                                         *)
(***************************************************************************)
\* The rows the request's predicate selects, and what paging through them
\* from page 1 until a page comes back empty counts.
Selected == BaseData(parquet.rows, sres.req.value_range)

RECURSIVE PagedCount(_, _, _)
PagedCount(s, page_size, page) ==
    LET rows == Limit(s, page_size, (page - 1) * page_size) IN
    IF rows = <<>> THEN 0 ELSE Len(rows) + PagedCount(s, page_size, page + 1)

\* C8: the total_count of a successful search that counts, on any page >= 1,
\* is the number of rows that paging through the same predicate yields.
TotalCountIsExhaustiveCount ==
    (sres.called /\ sres.success /\ sres.req.include_count /\ parquet.files > 0)
        => sres.total_count = PagedCount(Selected, sres.req.page_size, 1)

\* min(pageSize, totalCount - (page-1)*pageSize) when that is >= 0, else 0.
PageLength(page, page_size, total) ==
    LET left == total - (page - 1) * page_size
        n == IF page_size <= left THEN page_size ELSE left
    IN IF n >= 0 THEN n ELSE 0

\* C9: a search that counts returns PageLength rows for the total_count it
\* reports; a successful one returns PageLength rows for the number of rows
\* selected, and these are the rows from (page-1)*page_size + 1 on, at most
\* page_size of them, of the selected rows in the order asked for.
PageIsWindowOfSortedSet ==
    (sres.called /\ sres.req.include_count) =>
        LET req == sres.req
            first == (req.page - 1) * req.page_size + 1
        IN /\ Len(sres.data) = PageLength(req.page, req.page_size, sres.total_count)
           /\ sres.success =>
                /\ Len(sres.data) = PageLength(req.page, req.page_size, Len(Selected))
                /\ \E o \in OrderBy(Selected, SortField(req.sort_by),
                                    SortDirectionSql(req.sort_direction)) :
                      \A i \in 1..Len(sres.data) : sres.data[i] = o[first + i - 1]

\* A last page that is not full, after a full first page, of rows two of
\* which have the same sort key.
PartialLastPageReturned ==
    /\ sres.called /\ sres.success /\ sres.req.include_count
    /\ sres.req.page = 2 /\ sres.req.page_size = 2
    /\ Len(Selected) = 3
    /\ Len(sres.data) = 1
    /\ sres.total_count = 3
    /\ sres.req.sort_by = "contract_value"

(***************************************************************************)
(* Claims about the sort field                                             *)
(***************************************************************************)
\* Every name some entry point has on an allow-list or selects as a column.
KnownSortNames ==
    ALLOWED_SORT_FIELDS \cup AggregateSortChoices \cup EntityColumns
        \cup {"contract_value"}

\* C10: on every entry point that takes a sort field, a value that is on no
\* allow-list is answered with a validation error and becomes part of no
\* query string.
UnlistedSortRejected ==
    (sortq.ep # "none" /\ sortq.sort_by \notin KnownSortNames)
        => (sortq.status = 400 /\ sortq.order_by = "none" /\ sortq.pending = "none")

(***************************************************************************)
(* Claims about the streaming export                                       *)
(***************************************************************************)
\* C11: once the consumer has gone, whichever yield the generator stood at
\* and whichever export it is, the generator has ended without an error and
\* no step of it, so no further fetch, can follow.
ConsumerGoneStopsCleanly ==
    exp.disconnected =>
        /\ exp.outcome = "closed"
        /\ exp.error = "none"
        /\ ~ENABLED ExportNext

\* The consumer went while rows were still to be fetched and written.
DisconnectedMidStream ==
    /\ exp.disconnected
    /\ exp.kind = "records"
    /\ exp.written > 0
    /\ exp.fetched < exp.total

\* C12: a call of the executor is tried at most retries + 1 times, and an
\* executor failure that ends the export has been tried that often and
\* leaves as an ExportError.
FetchRetriedWithinBudget ==
    /\ exp.attempt <= retries + 1
    /\ exp.execFailed =>
          /\ exp.outcome = "raised"
          /\ exp.attempt = retries + 1
          /\ exp.error = "ExportError"

\* C13: an export during which the executor failed does not end the way a
\* completed export ends.
ExecutorFailureIsSignalled ==
    exp.execFailed => exp.outcome # "completed"


\* C25: an export over a finite result that ended without a failure of the
\* executor and without the consumer leaving has written the header and
\* then each of the rows (groups) 1..total once and no other.
ExportEmitsEachRowOnce ==
    (exp.outcome = "completed" /\ ~exp.execFailed /\ exp.files > 0) =>
        /\ exp.header
        /\ Len(Emitted(exp)) = exp.total
        /\ \A r \in 1..exp.total :
              Cardinality({i \in DOMAIN Emitted(exp) : Emitted(exp)[i] = r}) = 1

\* C26: in a record-level export the rows fetched and not yet written never
\* number more than fetch_size + write_size - 1, whatever the total.
UnwrittenRowsBounded ==
    exp.kind = "records" =>
        /\ exp.peak <= fetch_size + write_size - 1
        /\ exp.fetched - exp.written <= fetch_size + write_size - 1
        /\ exp.fetched - exp.written = exp.batch + exp.row_buffer

\* An export of more rows than one fetch brings has come to its end.
LargeExportCompleted ==
    /\ exp.kind = "records" /\ exp.outcome = "completed"
    /\ exp.total = MaxExportRows /\ exp.total > fetch_size
    /\ exp.written = exp.total
    /\ exp.peak = fetch_size

(***************************************************************************)
(* Claims about the query executor on degenerate input                     *)
(***************************************************************************)
\* C18: a search whose query the engine runs without an error of its own,
\* made when there is no partition file or when the filter keeps no row,
\* returns success with an empty page, total_count 0 and total_pages 0.
NothingSelectedIsEmptySuccess ==
    [][(/\ SortField(sres'.req.sort_by) \in Columns
        /\ (parquet.files = 0 \/ BaseData(parquet.rows, sres'.req.value_range) = <<>>)
        /\ search_contracts_with_chips(sres'.req, FALSE))
       => (/\ sres'.success
           /\ sres'.data = <<>>
           /\ sres'.total_count = 0
           /\ sres'.total_pages = 0)]_vars

\* A search over a file with rows of which the filter kept none.
EmptyMatchReturned ==
    /\ sres.called /\ sres.success
    /\ parquet.files = 1 /\ parquet.rows # <<>>
    /\ Selected = <<>>
    /\ sres.data = <<>> /\ sres.total_count = 0

\* C19: whatever the filters, each of the four executors hands its caller
\* a dict, with success false when building or running the query failed;
\* no exception leaves it.
ExecutorAlwaysReturnsResult ==
    (flt.called /\ flt.compiler \in Executors) => flt.result \in {"success", "failure"}

\* C17: a search called with a sort direction that is neither 'asc' nor
\* 'desc' and that succeeds returns its page in descending order of the sort
\* field.
UnknownDirectionSortsDescending ==
    (sres.called /\ sres.success /\ sres.req.sort_direction \notin {"asc", "desc"}) =>
        InOrder(sres.data, SortField(sres.req.sort_by), "DESC")

(***************************************************************************)
(* Claims about the filter compilers                                       *)
(***************************************************************************)
\* The chip predicate as stated: a chip keeps a value in which each of its
\* terms occurs, letter case aside; a list keeps what one of its chips keeps.
ChipListAsStated(chips, value) ==
    LET given == ChipsWithKeywords(chips) IN
    given = <<>> \/
    \E i \in 1..Len(given) :
        LET ks == parse_and_keywords(Strip(given[i])) IN
        \A j \in 1..Len(ks) :
            value # Null /\ Contains(LowerText(value), LowerText(ks[j]))

ChipsAsStated(req, row) ==
    /\ ChipListAsStated(req.business_categories, row.business_category)
    /\ ChipListAsStated(req.contractors, row.awardee_name)
    /\ ChipListAsStated(req.organizations, row.organization_name)
    /\ ChipListAsStated(req.areas, row.area_of_delivery)
    /\ ChipListAsStated(req.keywords, row.search_text)

FloodPart(compiler, req, row) ==
    (compiler = "paginated" /\ ~req.include_flood_control) => FloodCondition(row)

\* C14: the rows a compiled clause keeps are those where, in every
\* dimension with a chip that has a term, some chip has all of its
\* '&&'-separated trimmed terms occurring in the column as substrings,
\* letter case aside, and where the time and value constraints hold; a
\* dimension with no chip, or only blank ones, constrains nothing.
ChipPredicateIsSubstringMatch ==
    (flt.called /\ flt.compiler \in Compilers /\ flt.outcome = "ok") =>
        flt.matched =
            {i \in RowIds :
                /\ ChipsAsStated(flt.req, SampleRows[i])
                /\ TimeCondition(flt.compiler, flt.req.time_ranges,
                                 SampleRows[i].award_date)
                /\ ValueRangeCondition(SampleRows[i], flt.req.value_range)
                /\ FloodPart(flt.compiler, flt.req, SampleRows[i])}

\* C15: a contractor filter that is the placeholder 'All Contractors' keeps
\* the rows the same request without a contractor filter keeps, in the chip
\* compilers as in the single-value search.
SentinelIsNoConstraint ==
    (flt.called /\ flt.req.contractors = <<AllContractors>>) =>
        /\ flt.outcome = "ok"
        /\ flt.matched =
              IF flt.compiler = "single" THEN RowIds
              ELSE Compiled(flt.compiler,
                            [flt.req EXCEPT !.contractors = NoChips]).matched

\* An entry that is valid as stated, and the condition it gives.
ValidTimeRange(tr) ==
    \/ tr.type = "yearly" /\ tr.year.k = "int"
    \/ /\ tr.type = "quarterly" /\ tr.year.k = "int"
       /\ tr.quarter.k = "int" /\ tr.quarter.n \in 1..4
    \/ /\ tr.type = "custom" /\ tr.startDate.k = "date" /\ tr.endDate.k = "date"
       /\ tr.startDate.n <= tr.endDate.n

TimeRangeHolds(tr, d) ==
    CASE tr.type = "yearly" -> YearOf(d) = tr.year.n
      [] tr.type = "quarterly" -> YearOf(d) = tr.year.n /\ QuarterOf(d) = tr.quarter.n
      [] OTHER -> d >= tr.startDate.n /\ d <= tr.endDate.n

TimeAsStated(time_ranges, d) ==
    LET valid == {i \in 1..Len(time_ranges) : ValidTimeRange(time_ranges[i])}
    IN valid = {} \/ \E i \in valid : TimeRangeHolds(time_ranges[i], d)

\* C16: whatever the time range list, the search compiler and the two
\* aggregate compilers give a clause that does not fail and keeps the rows
\* whose award date is in one of the valid entries, or constrains nothing
\* when no entry is valid; an entry that is not valid is skipped.
TimeConstraintIsOrOfValidEntries ==
    (flt.called /\ flt.compiler \in Compilers) =>
        /\ flt.outcome = "ok"
        /\ flt.matched =
              {i \in RowIds :
                  /\ ChipConditions(flt.req, SampleRows[i], flt.compiler # "search")
                  /\ TimeAsStated(flt.req.time_ranges, SampleRows[i].award_date)
                  /\ ValueRangeCondition(SampleRows[i], flt.req.value_range)
                  /\ FloodPart(flt.compiler, flt.req, SampleRows[i])}


(***************************************************************************)
(* Claims about the multi-view aggregate                                   *)
(***************************************************************************)
\* C20: when chip_aggregates has built its query and got its connection,
\* and the queries of some views fail, the response is a success in which
\* each failing view is empty and every other view holds the rows computed
\* for it from the filtered data.
FailingViewAloneIsEmpty ==
    (agg.called /\ agg.failing # {} /\ agg.result # "exception"
                /\ agg.result # "failure") =>
        /\ agg.result = "success"
        /\ DOMAIN agg.data = Views
        /\ \A v \in agg.failing : agg.data[v] = {}
        /\ \A v \in Views \ agg.failing :
              agg.data[v] = ViewRows(v, Compiled("aggregates", agg.req).matched)

\* The by_month query alone failed and the other views have rows.
OneViewFailedOthersComputed ==
    /\ agg.called /\ agg.result = "success"
    /\ agg.failing = {"by_month"}
    /\ agg.data["by_month"] = {}
    /\ \A v \in Views \ {"by_month"} : agg.data[v] # {}
    /\ \E r \in agg.data["summary"] : r.count = 2


(***************************************************************************)
(* Claims about the paginated aggregate                                    *)
(***************************************************************************)
\* The rows the other filters keep: the same request with the supplementary
\* partition asked for, which adds no flood condition.
OtherwiseMatching(call) ==
    Compiled("paginated", [call.req EXCEPT !.include_flood_control = TRUE]).matched

\* The marker of the fixed rule in a column of a row.
Marked(row, column) ==
    row[column] # Null /\ Like(LowerText(row[column]), <<"%", "f", "l", "o", "o", "d", "%">>)

\* The rows the groups of a whole result count, by label.
CountedUnder(label) ==
    IF \E i \in DOMAIN pagg.data : pagg.data[i].label = label
    THEN (CHOOSE g \in {pagg.data[i] : i \in DOMAIN pagg.data} : g.label = label).count
    ELSE 0

\* C21: in a successful call whose page holds every group, a row that the
\* filters keep is counted in the group of its label unless the caller did
\* not ask for the supplementary partition and the row carries the marker
\* (in its grouping column or in its organization); so every group counts
\* at least those rows, and all rows when the partition was asked for.
OnlyMarkedRowsExcluded ==
    (pagg.called /\ pagg.success /\ pagg.call.page = 1 /\ pagg.call.page_size = 20) =>
        LET column == GroupColumn(pagg.call.dimension)
            due == {i \in OtherwiseMatching(pagg.call) :
                       \/ pagg.call.req.include_flood_control
                       \/ /\ ~Marked(SampleRows[i], column)
                          /\ ~Marked(SampleRows[i], "organization_name")}
        IN \A i \in due :
              CountedUnder(SampleRows[i][column]) >=
                  Cardinality({j \in due : SampleRows[j][column] = SampleRows[i][column]})


(***************************************************************************)
(* Claims about the histogram                                              *)
(***************************************************************************)
RECURSIVE SumCounts(_)
SumCounts(bins) ==
    IF bins = {} THEN 0
    ELSE LET b == CHOOSE x \in bins : TRUE IN b.count + SumCounts(bins \ {b})

\* C22: a successful histogram over rows of which one at least has a
\* positive amount has bins numbered within 1..num_bins whose counts add up
\* to the number of rows with a positive amount, equal amounts included.
BinCountsCoverPositiveRows ==
    (vdist.called /\ vdist.success /\ PositiveAmounts(vdist.amounts) # <<>>) =>
        /\ \A b \in vdist.bins : b.bin_number \in 1..vdist.num_bins
        /\ SumCounts(vdist.bins) = Len(PositiveAmounts(vdist.amounts))
        /\ vdist.total_contracts = Len(PositiveAmounts(vdist.amounts))

\* Two rows of the same positive amount, so that bin_width is 0, with a row
\* of amount 0 beside them.
EqualAmountsBinned ==
    /\ vdist.called /\ vdist.success
    /\ vdist.amounts = <<100, 0, 100>>
    /\ vdist.num_bins = 4
    /\ vdist.bins = {[bin_number |-> 4, count |-> 2]}


(***************************************************************************)
(* Claims about the shared connection                                      *)
(***************************************************************************)
\* C23: a request that has finished has fetched, in each of its fetches,
\* the rows of its own query, and a search has read the column names of its
\* own query.
RequestReadsItsOwnResult ==
    \A r \in Requesters :
        At(r, "done") =>
            /\ \A i \in DOMAIN conn.req[r].rows : conn.req[r].rows[i] = r
            /\ conn.req[r].kind = "search" => conn.req[r].columns = r

\* C24: at most one connection is ever made, it is configured before a
\* request gets it, and every request that has got a connection has that
\* one.
ConnectionMadeOnce ==
    /\ conn.made <= 1
    /\ \A r \in Requesters :
          conn.req[r].local # 0 =>
              (conn.req[r].local = 1 /\ conn.req[r].local \in conn.configured)

(***************************************************************************)
(* Claims about resubmission, retries and broadcasts                       *)
(***************************************************************************)
\* C27: a search submitted while its key holds no result is answered
\* "queued" and adds one new PENDING task with the request's cache key,
\* whatever tasks with that key are already in flight; and every task that
\* writes the key, by a failed attempt or by its completion, leaves its own
\* entry there, over the entry of any earlier writer.
ResubmissionSchedulesSeparateTask ==
    [][/\ (resp' # resp /\ resp'.op = "search"
            /\ ~ServedFromCache("search", cache[resp'.key]))
          => /\ resp'.status = "queued"
             /\ Len(tasks') = Len(tasks) + 1
             /\ resp'.task = Len(tasks')
             /\ tasks'[Len(tasks')].key = resp'.key
             /\ tasks'[Len(tasks')].state = "PENDING"
       /\ \A t \in 1..Len(tasks) :
             (\/ tasks'[t].fails > tasks[t].fails
              \/ tasks[t].pc = "executed" /\ tasks'[t].pc = "done")
             => /\ cache'[tasks[t].key] # Absent
                /\ cache'[tasks[t].key].by = t]_vars

\* Two tasks of the same request, the second submitted while the first was
\* in flight, have both completed; the first was the last to write.
TwoTasksWroteSameKey ==
    /\ Len(tasks) >= 2
    /\ tasks[1].key = tasks[2].key
    /\ tasks[1].state = "SUCCESS" /\ tasks[2].state = "SUCCESS"
    /\ resp.op = "search" /\ resp.status = "queued" /\ resp.task = 2
    /\ cache[tasks[1].key] # Absent
    /\ cache[tasks[1].key].by = 1

\* C28: the step in which a task that get_cached_result serves goes to
\* RETRY leaves an entry under its key that get_cached_result reports as
\* "error", and the step in which it goes to SUCCESS leaves one reported as
\* "success".
ErrorEntryIsNotFinal ==
    [][\A t \in 1..Len(tasks) :
          tasks[t].kind \in KeyedKinds =>
             /\ (tasks[t].state # "RETRY" /\ tasks'[t].state = "RETRY")
                   => CachedStatus(cache'[tasks[t].key]) = "error"
             /\ (tasks[t].state # "SUCCESS" /\ tasks'[t].state = "SUCCESS")
                   => CachedStatus(cache'[tasks[t].key]) = "success"]_vars

\* A poll answered "error" after a failed attempt, and the task has since
\* succeeded and left a result under the key.
ErrorSeenThenOverwritten ==
    \E t \in 1..Len(tasks) :
        /\ tasks[t].kind = "search"
        /\ tasks[t].state = "SUCCESS"
        /\ tasks[t].fails >= 1
        /\ resp.op = "get_cached_result"
        /\ resp.key = tasks[t].key
        /\ resp.status = "error"
        /\ CachedStatus(cache[tasks[t].key]) = "success"

BroadcastFailureChangesNothing ==
    [][\A t \in 1..Len(tasks) :
          /\ (tasks[t].pc = "queued" /\ tasks'[t] # tasks[t])
                => /\ tasks'[t] = Begin(tasks[t], "ok")
                   /\ tasks'[t].state = "PROGRESS"
                   /\ cache' = cache
          /\ (tasks'[t].fails > tasks[t].fails)
                => /\ cache'[tasks[t].key] = StoredError(tasks[t].kind, t)
                   /\ tasks'[t].state =
                         IF tasks[t].retries < MaxRetriesOf(tasks[t].kind)
                         THEN "RETRY" ELSE "FAILURE"
          /\ (tasks[t].pc = "executed" /\ tasks'[t] # tasks[t])
                => /\ tasks'[t].state = "SUCCESS"
                   /\ cache'[tasks[t].key] =
                         StoredResult(tasks[t].kind, t, tasks[t].result)]_vars

\* No send was delivered, and a search task has succeeded and stored its
\* result.
BroadcastsLostTaskSucceeded ==
    /\ channel = "first_raises"
    /\ sent = {}
    /\ \E t \in 1..Len(tasks) :
          /\ tasks[t].kind = "search"
          /\ tasks[t].state = "SUCCESS"
          /\ tasks[t].fails >= 1
          /\ cache[tasks[t].key] = ResultEntry(t, "ok")

====
